---- MODULE Spec2Model ----
(***************************************************************************)
(* A model of the unused-asset finder for RPG Maker MZ projects:           *)
(*   src/Unused_assets.py      the finder with global sets and provenance  *)
(*   src/Unused_assets_Gem.py  the earlier revision of the same finder     *)
(*                                                                         *)
(* Python strings are modelled as sequences of atoms.  An atom is either   *)
(* one punctuation character or one word; the words of the file universe   *)
(* are chosen so that no word of a searched name is a proper part of       *)
(* another word, which makes Python's substring test `x in s` the          *)
(* contiguous-subsequence test on atoms.  Where the code tests a needle    *)
(* that is a part of a word ('Map' in 'Map001'), or orders strings, the    *)
(* atoms are expanded to their character codes (CodeOf).                   *)
(***************************************************************************)
EXTENDS Integers, Sequences, FiniteSets, TLC

-----------------------------------------------------------------------------
(* Atoms *)

Q == "\""

APOS == "'"

SL == "/"

BS == "\\"

DOT == "."

SEP == " "

LB == "["

RB == "]"

LC == "{"

RC == "}"

COLON == ":"

COMMA == ","

\* the five characters \":\" that separate a parameter name from its value
\* inside the serialized parameter string of js/plugins.js
ESC5 == "\\\":\\\""

\* the character codes of every atom of the universe
CodeOf ==
    "C:" :> <<67, 58>>
    @@ "Games" :> <<71, 97, 109, 101, 115>>
    @@ "Proj" :> <<80, 114, 111, 106>>
    @@ "MapInfoGames" :> <<77, 97, 112, 73, 110, 102, 111, 71, 97, 109, 101, 115>>
    @@ "DatabaseCleanUpTool" :> <<68, 97, 116, 97, 98, 97, 115, 101, 67, 108, 101, 97, 110, 85, 112, 84, 111, 111, 108>>
    @@ "Game" :> <<71, 97, 109, 101>>
    @@ "exe" :> <<101, 120, 101>>
    @@ "js" :> <<106, 115>>
    @@ "main" :> <<109, 97, 105, 110>>
    @@ "plugins" :> <<112, 108, 117, 103, 105, 110, 115>>
    @@ "Foo" :> <<70, 111, 111>>
    @@ "data" :> <<100, 97, 116, 97>>
    @@ "Animations" :> <<65, 110, 105, 109, 97, 116, 105, 111, 110, 115>>
    @@ "json" :> <<106, 115, 111, 110>>
    @@ "Tilesets" :> <<84, 105, 108, 101, 115, 101, 116, 115>>
    @@ "Map001" :> <<77, 97, 112, 48, 48, 49>>
    @@ "MapInfos" :> <<77, 97, 112, 73, 110, 102, 111, 115>>
    @@ "Skills" :> <<83, 107, 105, 108, 108, 115>>
    @@ "img" :> <<105, 109, 103>>
    @@ "tilesets" :> <<116, 105, 108, 101, 115, 101, 116, 115>>
    @@ "Outside" :> <<79, 117, 116, 115, 105, 100, 101>>
    @@ "png" :> <<112, 110, 103>>
    @@ "PNG" :> <<80, 78, 71>>
    @@ "effects" :> <<101, 102, 102, 101, 99, 116, 115>>
    @@ "Fire" :> <<70, 105, 114, 101>>
    @@ "Ice" :> <<73, 99, 101>>
    @@ "efkefc" :> <<101, 102, 107, 101, 102, 99>>
    @@ "Spark" :> <<83, 112, 97, 114, 107>>
    @@ "Glow" :> <<71, 108, 111, 119>>
    @@ "audio" :> <<97, 117, 100, 105, 111>>
    @@ "se" :> <<115, 101>>
    @@ "Bell" :> <<66, 101, 108, 108>>
    @@ "ogg" :> <<111, 103, 103>>
    @@ "locales" :> <<108, 111, 99, 97, 108, 101, 115>>
    @@ "en" :> <<101, 110>>
    @@ "pak" :> <<112, 97, 107>>
    @@ "info" :> <<105, 110, 102, 111>>
    @@ "Orphan" :> <<79, 114, 112, 104, 97, 110>>
    @@ "effekseerWasmUrl" :> <<101, 102, 102, 101, 107, 115, 101, 101, 114, 87, 97, 115, 109, 85, 114, 108>>
    @@ "Map" :> <<77, 97, 112>>
    @@ "MapInfo" :> <<77, 97, 112, 73, 110, 102, 111>>
    @@ "rmmzsave" :> <<114, 109, 109, 122, 115, 97, 118, 101>>
    @@ "save" :> <<115, 97, 118, 101>>
    @@ "file1" :> <<102, 105, 108, 101, 49>>
    @@ "root" :> <<114, 111, 111, 116>>
    @@ "animations" :> <<97, 110, 105, 109, 97, 116, 105, 111, 110, 115>>
    @@ "effect_file" :> <<101, 102, 102, 101, 99, 116, 95, 102, 105, 108, 101>>
    @@ "id" :> <<105, 100>>
    @@ "effectName" :> <<101, 102, 102, 101, 99, 116, 78, 97, 109, 101>>
    @@ "soundTimings" :> <<115, 111, 117, 110, 100, 84, 105, 109, 105, 110, 103, 115>>
    @@ "name" :> <<110, 97, 109, 101>>
    @@ "tilesetId" :> <<116, 105, 108, 101, 115, 101, 116, 73, 100>>
    @@ "tilesetNames" :> <<116, 105, 108, 101, 115, 101, 116, 78, 97, 109, 101, 115>>
    @@ "animationId" :> <<97, 110, 105, 109, 97, 116, 105, 111, 110, 73, 100>>
    @@ "null" :> <<110, 117, 108, 108>>
    @@ "var" :> <<118, 97, 114>>
    @@ "$plugins" :> <<36, 112, 108, 117, 103, 105, 110, 115>>
    @@ "status" :> <<115, 116, 97, 116, 117, 115>>
    @@ "parameters" :> <<112, 97, 114, 97, 109, 101, 116, 101, 114, 115>>
    @@ "AttackAnimation:num" :> <<65, 116, 116, 97, 99, 107, 65, 110, 105, 109, 97, 116, 105, 111, 110, 58, 110, 117, 109>>
    @@ "CastCertain:num" :> <<67, 97, 115, 116, 67, 101, 114, 116, 97, 105, 110, 58, 110, 117, 109>>
    @@ "CastPhysical:num" :> <<67, 97, 115, 116, 80, 104, 121, 115, 105, 99, 97, 108, 58, 110, 117, 109>>
    @@ "CastMagical:num" :> <<67, 97, 115, 116, 77, 97, 103, 105, 99, 97, 108, 58, 110, 117, 109>>
    @@ "ReflectAnimation:num" :> <<82, 101, 102, 108, 101, 99, 116, 65, 110, 105, 109, 97, 116, 105, 111, 110, 58, 110, 117, 109>>
    @@ "true" :> <<116, 114, 117, 101>>
    @@ "tool" :> <<116, 111, 111, 108>>
    @@ "Stage" :> <<83, 116, 97, 103, 101>>
    @@ "git" :> <<103, 105, 116>>
    @@ "vs" :> <<118, 115>>
    @@ "libs" :> <<108, 105, 98, 115>>
    @@ "pixi" :> <<112, 105, 120, 105>>
    @@ "(" :> <<40>>
    @@ ")" :> <<41>>
    @@ "0" :> <<48>>
    @@ "1" :> <<49>>
    @@ "2" :> <<50>>
    @@ "3" :> <<51>>
    @@ "4" :> <<52>>
    @@ "5" :> <<53>>
    @@ "6" :> <<54>>
    @@ "7" :> <<55>>
    @@ "8" :> <<56>>
    @@ "9" :> <<57>>
    @@ "\"" :> <<34>>
    @@ "'" :> <<39>>
    @@ "/" :> <<47>>
    @@ "\\" :> <<92>>
    @@ "." :> <<46>>
    @@ " " :> <<32>>
    @@ "[" :> <<91>>
    @@ "]" :> <<93>>
    @@ "{" :> <<123>>
    @@ "}" :> <<125>>
    @@ ":" :> <<58>>
    @@ "," :> <<44>>
    @@ ";" :> <<59>>
    @@ "=" :> <<61>>
    @@ "-" :> <<45>>
    @@ "\\\":\\\"" :> <<92, 34, 58, 92, 34>>

RECURSIVE Chars(_)
\* the character codes of a string
Chars(s) == IF s = <<>> THEN <<>> ELSE CodeOf[Head(s)] \o Chars(Tail(s))

\* Python's < on two strings given by their character codes
LexLess(a, b) ==
    \/ Len(a) < Len(b) /\ SubSeq(b, 1, Len(a)) = a
    \/ \E i \in 1..Len(a) :
          /\ i <= Len(b)
          /\ a[i] < b[i]
          /\ \A j \in 1..(i - 1) : a[j] = b[j]

PyLess(x, y) == LexLess(Chars(x), Chars(y))

RECURSIVE SortedSeq(_)
\* sorted(S) for a set S of strings
SortedSeq(S) ==
    IF S = {} THEN <<>>
    ELSE LET m == CHOOSE x \in S : \A y \in S : ~PyLess(y, x)
         IN <<m>> \o SortedSeq(S \ {m})

IsSorted(xs) == \A i \in 1..(Len(xs) - 1) : ~PyLess(xs[i + 1], xs[i])

Range(xs) == {xs[i] : i \in 1..Len(xs)}

-----------------------------------------------------------------------------
(* String operations *)

\* needle in hay, both sequences of atoms
Contains(hay, needle) ==
    \/ Len(needle) = 0
    \/ \E i \in 1..(Len(hay) - Len(needle) + 1) :
          SubSeq(hay, i, i + Len(needle) - 1) = needle

\* needle in hay for a needle that is one word, possibly a part of a word of hay
WordIn(needle, hay) ==
    \E i \in 1..Len(hay) : Contains(CodeOf[hay[i]], CodeOf[needle])

EndsWith(s, suffix) ==
    /\ Len(s) >= Len(suffix)
    /\ SubSeq(s, Len(s) - Len(suffix) + 1, Len(s)) = suffix

StartsWith(s, prefix) ==
    /\ Len(s) >= Len(prefix)
    /\ SubSeq(s, 1, Len(prefix)) = prefix

\* an ending test that no string passes
EndsWithNothing(s, w) == FALSE

\* s.endswith(w) for a word w without a dot: the last atom ends with w
EndsWithWord(s, w) ==
    /\ Len(s) >= 1
    /\ LET c == CodeOf[s[Len(s)]]
           n == CodeOf[w]
       IN  Len(c) >= Len(n) /\ SubSeq(c, Len(c) - Len(n) + 1, Len(c)) = n

\* str.rfind(a) + 1: the last position of atom a, 0 when absent
LastIndexOf(s, a) ==
    IF \E i \in 1..Len(s) : s[i] = a
    THEN CHOOSE i \in 1..Len(s) : s[i] = a /\ \A j \in (i + 1)..Len(s) : s[j] # a
    ELSE 0

FirstIndexOf(s, a) ==
    IF \E i \in 1..Len(s) : s[i] = a
    THEN CHOOSE i \in 1..Len(s) : s[i] = a /\ \A j \in 1..(i - 1) : s[j] # a
    ELSE 0

\* os.path.basename
Basename(p) == SubSeq(p, LastIndexOf(p, SL) + 1, Len(p))

\* os.path.dirname
Dirname(p) == SubSeq(p, 1, LastIndexOf(p, SL) - 1)

\* os.path.splitext(base)[0]: cut at the last dot unless only dots precede it
Stem(base) ==
    LET d == LastIndexOf(base, DOT)
    IN  IF d > 0 /\ \E k \in 1..(d - 1) : base[k] # DOT
        THEN SubSeq(base, 1, d - 1)
        ELSE base

RECURSIVE PathParts(_)
\* s.split('/'): the parts of a path between its separators
PathParts(s) ==
    IF FirstIndexOf(s, SL) = 0 THEN {s}
    ELSE {SubSeq(s, 1, FirstIndexOf(s, SL) - 1)}
            \cup PathParts(SubSeq(s, FirstIndexOf(s, SL) + 1, Len(s)))

\* os.path.join(a, b).replace("\\", "/")
Join(a, b) == a \o <<SL>> \o b

\* str.lower() on the atoms of the universe
Lower(s) == [i \in 1..Len(s) |-> IF s[i] = "PNG" THEN "png" ELSE s[i]]

-----------------------------------------------------------------------------
(* JSON values as json.load returns them.  Python's None is JNull. *)

JNull == [t |-> "null"]

JInt(n) == [t |-> "int", v |-> n]

JStr(s) == [t |-> "str", v |-> s]

JList(xs) == [t |-> "list", v |-> xs]

\* kvs: the sequence of <<key, value>> pairs in insertion order, key one word
JDict(kvs) == [t |-> "dict", v |-> kvs]

IsNone(x) == x.t = "null"

\* bool(x)
Truthy(x) ==
    CASE x.t = "null" -> FALSE
      [] x.t = "int" -> x.v # 0
      [] OTHER -> x.v # <<>>

\* hash(x) succeeds: lists and dicts cannot be members of a set
Hashable(x) == x.t \in {"null", "int", "str"}

HasKey(d, k) == \E i \in 1..Len(d.v) : d.v[i][1] = k

\* d[k] for a key that is present
Item(d, k) == d.v[CHOOSE i \in 1..Len(d.v) : d.v[i][1] = k][2]

\* d.get(k, default)
GetOr(d, k, default) == IF HasKey(d, k) THEN Item(d, k) ELSE default

IntAtoms(n) == IF n < 0 THEN <<"-", ToString(-n)>> ELSE <<ToString(n)>>

RECURSIVE Dump(_)
RECURSIVE DumpItems(_)
RECURSIVE DumpPairs(_)
\* the text of a JSON file that holds the value x
Dump(x) ==
    CASE x.t = "null" -> <<"null">>
      [] x.t = "int" -> IntAtoms(x.v)
      [] x.t = "str" -> <<Q>> \o x.v \o <<Q>>
      [] x.t = "list" -> <<LB>> \o DumpItems(x.v) \o <<RB>>
      [] x.t = "dict" -> <<LC>> \o DumpPairs(x.v) \o <<RC>>

DumpItems(xs) ==
    IF xs = <<>> THEN <<>>
    ELSE Dump(Head(xs)) \o (IF Len(xs) > 1 THEN <<COMMA>> ELSE <<>>) \o DumpItems(Tail(xs))

DumpPairs(kvs) ==
    IF kvs = <<>> THEN <<>>
    ELSE <<Q, Head(kvs)[1], Q, COLON>> \o Dump(Head(kvs)[2])
         \o (IF Len(kvs) > 1 THEN <<COMMA>> ELSE <<>>) \o DumpPairs(Tail(kvs))

RECURSIVE extract_key_value(_, _)
RECURSIVE ExtractFromPairs(_, _)
RECURSIVE ExtractFromItems(_, _)
\* the value of the first `key` met in a depth-first walk, None when the walk
\* meets none (or meets one whose value is null inside a dict)
extract_key_value(data, key) ==
    CASE data.t = "dict" -> ExtractFromPairs(data.v, key)
      [] data.t = "list" -> ExtractFromItems(data.v, key)
      [] OTHER -> JNull

\* for k, v in data.items()
ExtractFromPairs(kvs, key) ==
    IF kvs = <<>> THEN JNull
    ELSE LET k == Head(kvs)[1]
             v == Head(kvs)[2]
         IN  IF k = key THEN v
             ELSE IF v.t \in {"dict", "list"} /\ ~IsNone(extract_key_value(v, key))
                  THEN extract_key_value(v, key)
                  ELSE ExtractFromPairs(Tail(kvs), key)

\* for item in data
ExtractFromItems(xs, key) ==
    IF xs = <<>> THEN JNull
    ELSE IF ~IsNone(extract_key_value(Head(xs), key))
         THEN extract_key_value(Head(xs), key)
         ELSE ExtractFromItems(Tail(xs), key)

-----------------------------------------------------------------------------
(* State *)

VARIABLES
    directory,          \* the project directory the user selected
    fs,                 \* the files below it: path -> content (only deletion writes)
    pc,                 \* the position of the worker thread in find_unused_files
    runs,               \* how often run_finder was invoked
    used_files,         \* global set
    unused_files,       \* global set
    code_files,         \* global set
    animations,         \* global set of collected animation ids
    cached_json,        \* global cache of load_cached_json: path -> value
    file_references,    \* local dict: source -> what it references
    files_used_in,      \* local dict: file -> where it is used
    animations_lookup,  \* local list of <<effectName, id>>
    file_path,          \* loop variable of the directory walks, kept after them
    filepath,           \* loop variable of the code-file loops, kept after them
    file,               \* loop variable of the candidate loop, kept after it
    se,                 \* the sound name of the last dict timing, kept after it
    test_count,         \* code files the sweep has evaluated
    todo,               \* what the running loop still has to iterate
    log,                \* what was printed: a set of [msg, arg]
    result,             \* what find_unused_files returned: <<list>> or <<>>
    results,            \* the unused lists returned by the runs so far
    gpc,                \* Gem revision: position in its find_unused_files
    gfiles,             \* Gem revision: the list `files`, in walk order
    gcode_files,        \* Gem revision: the members of the list `code_files`
    gused_files,        \* Gem revision: the local set used_files
    ganimations,        \* Gem revision: the collected animation ids
    gse,                \* Gem revision: the local `se`
    gtodo,              \* Gem revision: the ids its animation loop has to iterate
    gresult,            \* Gem revision: the returned list, <<list>> or <<>>
    data,               \* container extractor: the bytes read
    png_files,          \* container extractor: <<returned list>> or <<>>
    dpc,                \* deletion: the position of the deleting thread
    dgiven,             \* deletion: the paths the user confirmed, as iterated
    dtodo,              \* deletion: the paths the loop still has to iterate
    gdtodo,             \* Gem deletion: the characters its loop has to iterate
    di,                 \* deletion: the index i of enumerate
    attempted,          \* deletion: the paths os.remove was called with
    gattempted,         \* Gem deletion: the one-character names os.remove got
    after,              \* deletion: the callbacks scheduled with app.after
    calls,              \* cache: how often load_cached_json was called directly
    asked,              \* cache: the calls so far: the path, and whether its file loads
    returned,           \* cache: what that call returned
    opens,              \* cache: path -> how often such a call opened the file
    haystack,           \* matcher: the content searched
    wanted,             \* matcher: the target file searched for
    verdict,            \* matcher: <<what search_content_for_file returned>> or <<>>
    gverdict,           \* matcher: <<what the revision's matcher returned>> or <<>>
    wpc,                \* GUI: the position of the worker thread of each run
    wtodo,              \* GUI: the code files the sweep of each worker has to read
    packed,             \* GUI: the delete button is shown
    deleter,            \* GUI: the deleting thread: position, the set it iterates, what it yielded
    wcount,             \* GUI: the local test_count of each worker
    called,             \* GUI: the <<test_count, code_count>> the progress callback was given
    repo_path,          \* staging: the text of the repository entry
    staging_base,       \* staging: the text of the staging entry
    staging_path,       \* staging: the directory the copy goes to
    spc,                \* staging: the position of the copying thread
    rmtree,             \* staging: the directory shutil.rmtree removed, if any
    scopy               \* staging: the files the copy loop still has to copy

inputVars == <<directory, fs>>

globalVars == <<used_files, unused_files, code_files, animations, cached_json>>

localVars == <<file_references, files_used_in, animations_lookup, file_path,
               filepath, file, se, test_count, todo>>

mainVars == <<pc, runs, globalVars, localVars, log, result, results>>

gemVars == <<gpc, gfiles, gcode_files, gused_files, ganimations, gse, gtodo, gresult>>

pngVars == <<data, png_files>>

delVars == <<dpc, dgiven, dtodo, gdtodo, di, attempted, gattempted, after>>

cacheVars == <<calls, asked, returned, opens>>

matchVars == <<haystack, wanted, verdict, gverdict>>

guiVars == <<wpc, wtodo, packed, deleter, wcount, called>>

stageVars == <<repo_path, staging_base, staging_path, spc, rmtree, scopy>>

vars == <<inputVars, mainVars, gemVars, pngVars, delVars, cacheVars, matchVars, guiVars, stageVars>>

\* a local name that holds a JSON value and is not bound yet
Unbound == [t |-> "unbound"]

\* a local name that holds a path and is not bound yet
NoPath == <<>>

EmptyMap == [k \in {} |-> {}]

\* d.setdefault(k, set()).add(x), as the code spells it with `if k not in d`
AddTo(d, k, x) ==
    IF k \in DOMAIN d THEN [d EXCEPT ![k] = @ \cup {x}] ELSE d @@ (k :> {x})

\* d[k] = set()
Reset(d, k) == [j \in DOMAIN d \cup {k} |-> IF j = k THEN {} ELSE d[j]]

Log(msg, arg) == [msg |-> msg, arg |-> arg]

-----------------------------------------------------------------------------
(* The file system *)

JsonFile(doc) == [kind |-> "json", doc |-> doc]

TextFile(text) == [kind |-> "text", text |-> text]

PluginsJs(doc) == [kind |-> "plugins", doc |-> doc]

\* an effect container: the printable runs its bytes hold
Container(strings) == [kind |-> "efk", strings |-> strings]

Blob == [kind |-> "blob"]

Exists(p) == p \in DOMAIN fs

RECURSIVE JoinAll(_, _)
JoinAll(xs, sep) ==
    IF xs = <<>> THEN <<>>
    ELSE Head(xs) \o (IF Len(xs) > 1 THEN <<sep>> ELSE <<>>) \o JoinAll(Tail(xs), sep)

\* the text get_content_from_file returns for an existing file
get_content_from_file(p) ==
    LET c == fs[p]
    IN  CASE c.kind = "json" -> Dump(c.doc)
          [] c.kind = "text" -> c.text
          [] c.kind = "plugins" -> <<"var", SEP, "$plugins", SEP, "=", SEP>> \o Dump(c.doc) \o <<";">>
          [] c.kind = "efk" -> JoinAll(c.strings, SEP)
          [] OTHER -> <<>>

\* json.load on the file succeeds
JsonLoads(p) == Exists(p) /\ fs[p].kind = "json"

\* a cache that loads anew what it holds as None
load_retrying(cache, p) ==
    IF p \in DOMAIN cache /\ ~IsNone(cache[p]) THEN cache
    ELSE [q \in DOMAIN cache \cup {p} |->
             IF q = p THEN (IF JsonLoads(p) THEN fs[p].doc ELSE JNull) ELSE cache[q]]

\* load_cached_json: the cache after the call; cached_json[p] is what it returns
load_cached_json(cache, p) ==
    IF p \in DOMAIN cache THEN cache
    ELSE cache @@ (p :> IF JsonLoads(p) THEN fs[p].doc ELSE JNull)

\* what load_cached_json prints on the call
LoadLog(cache, p) ==
    IF p \notin DOMAIN cache /\ ~JsonLoads(p) THEN {Log("Error loading", p)} ELSE {}

RECURSIVE LoadAll(_, _)
LoadAll(cache, ps) ==
    IF ps = {} THEN cache
    ELSE LET p == CHOOSE x \in ps : TRUE
         IN  LoadAll(load_cached_json(cache, p), ps \ {p})

\* the directories os.walk(top) visits: top and every directory below it
WalkDirs(top) ==
    UNION {{SubSeq(p, 1, i - 1) : i \in {j \in 1..Len(p) : j > Len(top) /\ p[j] = SL}} :
             p \in {q \in DOMAIN fs : StartsWith(q, top \o <<SL>>)}}

FilesIn(d) == {p \in DOMAIN fs : Dirname(p) = d}

\* the files of S that a top-down walk can visit last
LastWalked(S) ==
    {p \in S : ~\E q \in S : StartsWith(Dirname(q), Dirname(p) \o <<SL>>)}

DataDir == Join(directory, <<"data">>)

AnimationsJson == Join(DataDir, <<"Animations", DOT, "json">>)

TilesetsJson == Join(DataDir, <<"Tilesets", DOT, "json">>)

JsDir == Join(directory, <<"js">>)

PluginsFile == Join(JsDir, <<"plugins", DOT, "js">>)

MainFile == Join(JsDir, <<"main", DOT, "js">>)

EffectsDir == Join(directory, <<"effects">>)

\* str(x) inside an f-string or a path
NameText(x) == IF x.t = "str" THEN x.v ELSE Dump(x)

-----------------------------------------------------------------------------
(* load_animations_json *)

\* item['effectName'] and item['id'] succeed
IsAnimationItem(x) == x.t = "dict" /\ HasKey(x, "effectName") /\ HasKey(x, "id")

\* the list comprehension over animations_data raises
LookupRaises(d) ==
    \/ d.t \in {"null", "int"}
    \/ d.t \in {"dict", "str"} /\ d.v # <<>>
    \/ d.t = "list" /\ \E i \in 1..Len(d.v) : ~IsNone(d.v[i]) /\ ~IsAnimationItem(d.v[i])

\* [(item['effectName'], item['id']) for item in animations_data if item is not None]
LookupList(d) ==
    IF d.t # "list" THEN <<>>
    ELSE LET items == SelectSeq(d.v, LAMBDA x : ~IsNone(x))
         IN  [i \in 1..Len(items) |-> <<Item(items[i], "effectName"), Item(items[i], "id")>>]

-----------------------------------------------------------------------------
(* get_used_plugins *)

\* the quoted *.js / *.json references the regular expression finds in main.js
MainRefs(text) ==
    {SubSeq(text, kj[1] + 1, kj[2] - 1) :
        kj \in {ab \in (1..Len(text)) \X (1..Len(text)) :
                  /\ ab[1] + 4 <= ab[2]
                  /\ text[ab[1]] \in {Q, APOS}
                  /\ text[ab[2]] = Q
                  /\ \A m \in (ab[1] + 1)..(ab[2] - 1) : text[m] \notin {Q, APOS}
                  /\ text[ab[2] - 2] = DOT
                  /\ text[ab[2] - 1] \in {"js", "json"}}}

\* if file.startswith('js/'): file = file[3:]
StripJs(f) == IF StartsWith(f, <<"js", SL>>) THEN SubSeq(f, 3, Len(f)) ELSE f

\* reading js/plugins.js as a list: "" on success, else the exception raised
PluginsError(p) ==
    LET text == get_content_from_file(p)
    IN  IF FirstIndexOf(text, LB) = 0 \/ LastIndexOf(text, RB) = 0 THEN "ValueError"
        ELSE IF fs[p].kind = "plugins" THEN ""
        ELSE "JSONDecodeError"

\* plugin['name'] succeeds
HasName(pl) == pl.t = "dict" /\ HasKey(pl, "name")

\* the plugin entries of a parsed list
PluginEntries(doc) ==
    {<<"plugins", SL>> \o NameText(Item(doc.v[i], "name")) \o <<DOT, "js">> :
        i \in {j \in 1..Len(doc.v) : HasName(doc.v[j])}}

\* get_used_plugins raises: a descriptor without a name, or no js/main.js
PluginsRaise ==
    \/ /\ Exists(PluginsFile)
       /\ PluginsError(PluginsFile) = ""
       /\ \E i \in 1..Len(fs[PluginsFile].doc.v) : ~HasName(fs[PluginsFile].doc.v[i])
    \/ ~Exists(MainFile)

\* what get_used_plugins returns when it returns
get_used_plugins ==
    (IF Exists(PluginsFile) /\ PluginsError(PluginsFile) = ""
     THEN PluginEntries(fs[PluginsFile].doc) ELSE {})
    \cup {<<"plugins", DOT, "js">>, <<"main", DOT, "js">>}
    \cup {StripJs(f) : f \in MainRefs(get_content_from_file(MainFile))}

-----------------------------------------------------------------------------
(* animation ids *)

\* what `for item in json_content` iterates: the items of a list, the keys of a dict
ItemsOf(doc) ==
    CASE doc.t = "list" -> doc.v
      [] doc.t = "dict" -> [i \in 1..Len(doc.v) |-> JStr(<<doc.v[i][1]>>)]
      [] OTHER -> <<>>

RECURSIVE IdsOfItems(_)
\* the ids one file adds, and whether animations.add raised (which ends the file)
IdsOfItems(items) ==
    IF items = <<>> THEN [ids |-> {}, raised |-> FALSE]
    ELSE LET id == extract_key_value(Head(items), "animationId")
             rest == IdsOfItems(Tail(items))
         IN  IF ~Truthy(id) \/ id = JInt(-1) THEN rest
             ELSE IF ~Hashable(id) THEN [ids |-> {}, raised |-> TRUE]
             ELSE [ids |-> {id} \cup rest.ids, raised |-> rest.raised]

\* the loop over one file's content raises (and the except clause prints)
CollectRaises(doc) == doc.t \in {"null", "int"} \/ IdsOfItems(ItemsOf(doc)).raised

PatternNames ==
    {"AttackAnimation:num", "CastCertain:num", "CastPhysical:num",
     "CastMagical:num", "ReflectAnimation:num"}

Digits == {"0", "1", "2", "3", "4", "5", "6", "7", "8", "9"}

DigitValue(a) == CHOOSE n \in 0..9 : ToString(n) = a

RECURSIVE NumberAt(_, _, _)
\* int of the digits (\d+) that start at position i, acc the value so far
NumberAt(text, i, acc) ==
    IF i <= Len(text) /\ text[i] \in Digits
    THEN NumberAt(text, i + 1, 10 * acc + DigitValue(text[i]))
    ELSE acc

\* get_animation_ids: name, exactly five characters, digits
get_animation_ids(text) ==
    {JInt(NumberAt(text, ij[2] + 1, 0)) :
        ij \in {ab \in (1..Len(text)) \X (1..Len(text)) :
                  /\ text[ab[1]] \in PatternNames
                  /\ ab[1] < ab[2]
                  /\ ab[2] < Len(text)
                  /\ Len(Chars(SubSeq(text, ab[1] + 1, ab[2]))) = 5
                  /\ text[ab[2] + 1] \in Digits}}

-----------------------------------------------------------------------------
(* tileset resolution *)

\* filepath.endswith('.json') and 'Map' in filepath and 'MapInfo' not in filepath
IsMapFile(p) ==
    EndsWith(p, <<DOT, "json">>) /\ WordIn("Map", p) /\ ~WordIn("MapInfo", p)

\* next((ts for ts in tilesets_data if isinstance(ts, dict) and ts.get('id') == id), None)
FindTileset(tilesets_data, id) ==
    LET hits == SelectSeq(ItemsOf(tilesets_data),
                          LAMBDA ts : ts.t = "dict" /\ GetOr(ts, "id", JNull) = id)
    IN  IF hits = <<>> THEN JNull ELSE Head(hits)

\* the longest prefix of xs that set.update can add before it meets an unhashable item
HashablePrefix(xs) ==
    IF \E i \in 1..Len(xs) : ~Hashable(xs[i])
    THEN SubSeq(xs, 1, (CHOOSE i \in 1..Len(xs) :
                          ~Hashable(xs[i]) /\ \A j \in 1..(i - 1) : Hashable(xs[j])) - 1)
    ELSE xs

\* str(tuple(names)) as the key stored in file_references
TupleStr(names) ==
    <<"(">> \o JoinAll([i \in 1..Len(names) |-> NameText(names[i])], COMMA) \o <<")">>

\* one pass of the map loop over the code file p, with the cache loaded:
\* the names it adds to used_tilesets, the tuple it records, what it prints
MapStep(cache, p) ==
    LET none == [names |-> {}, tuples |-> {}, log |-> {}]
        map_data == cache[p]
        tileset_id == GetOr(map_data, "tilesetId", JNull)
        tilesets_data == cache[TilesetsJson]
        tileset == FindTileset(tilesets_data, tileset_id)
        names == GetOr(tileset, "tilesetNames", JList(<<>>))
    IN  IF map_data.t # "dict"
        THEN [none EXCEPT !.log = {Log("Error reading Map", p)}]
        ELSE IF IsNone(tileset_id) THEN none
        ELSE IF tilesets_data.t \in {"null", "int"}
        THEN [none EXCEPT !.log = {Log("Error reading Map", p)}]
        ELSE IF ~Truthy(tileset)
        THEN [none EXCEPT !.log = {Log("Warning: No tileset found", p)}]
        ELSE IF names.t \in {"null", "int"}
        THEN [none EXCEPT !.log = {Log("Error reading Map", p)}]
        ELSE IF \E i \in 1..Len(ItemsOf(names)) : ~Hashable(ItemsOf(names)[i])
        THEN [names |-> Range(HashablePrefix(ItemsOf(names))), tuples |-> {},
              log |-> {Log("Error reading Map", p)}]
        ELSE [names |-> Range(ItemsOf(names)), tuples |-> {TupleStr(ItemsOf(names))},
              log |-> {}]

\* os.path.join(directory, 'img', 'tilesets', tileset_name + '.png')
TilesetPng(name) ==
    Join(Join(Join(directory, <<"img">>), <<"tilesets">>), name \o <<DOT, "png">>)

-----------------------------------------------------------------------------
(* search_content_for_file *)

search_content_for_file(content, source_file, target_file) ==
    IF EndsWith(source_file, <<DOT, "efkefc">>)
    THEN EndsWith(target_file, <<DOT, "png">>) /\ Contains(content, Basename(target_file))
    ELSE LET base_file == Basename(target_file)
             name_file == Stem(base_file)
         IN  \/ Contains(content, <<Q>> \o name_file \o <<Q>>)
             \/ Contains(content, <<SL>> \o name_file)
             \/ Contains(content, name_file \o <<BS>>)
             \/ Contains(content, base_file)

\* a sweep that forgets the sidecar of a locale package
InfoFilesForgotten(matched) == {}

\* the sidecar the sweep adds for a matched locale package: {file + '.info'}
InfoFiles(matched) ==
    {f \o <<DOT, "info">> : f \in {m \in matched : EndsWith(m, <<DOT, "pak">>)}}

-----------------------------------------------------------------------------
(* extract_png_filenames, on the printable runs a container holds *)

extract_png_filenames(p) ==
    SortedSeq({s \in Range(fs[p].strings) : EndsWith(Lower(s), <<DOT, "png">>)})

\* open(efkefc_path, "rb") succeeds
Readable(p) == Exists(p) /\ fs[p].kind = "efk"

-----------------------------------------------------------------------------
(* Project directories the finder is run on *)

\* how often the user presses "Find Unused Files"
MaxRuns == 2

ProjectRoots ==
    {<<"C:", SL, "Games", SL, "Proj">>,
     <<"C:", SL, "MapInfoGames", SL, "Proj">>,
     <<"C:", SL, "DatabaseCleanUpTool", SL, "Proj">>}

\* a project whose map uses tileset T of a database with one tileset
TilesetProject(T, names) ==
    (<<"Game", DOT, "exe">> :> Blob)
    @@ (<<"js", SL, "main", DOT, "js">> :> TextFile(<<>>))
    @@ (<<"js", SL, "plugins", DOT, "js">> :> PluginsJs(JList(<<>>)))
    @@ (<<"data", SL, "Tilesets", DOT, "json">> :>
          JsonFile(JList(<<JNull,
                           JDict(<< <<"id", JInt(1)>>,
                                    <<"tilesetNames", JList(names)>> >>)>>)))
    @@ (<<"data", SL, "Map001", DOT, "json">> :>
          JsonFile(JDict(<< <<"tilesetId", JInt(T)>> >>)))
    @@ (<<"img", SL, "tilesets", SL, "Outside", DOT, "png">> :> Blob)
    @@ (<<"img", SL, "Orphan", DOT, "png">> :> Blob)

BellTiming == JDict(<< <<"se", JDict(<< <<"name", JStr(<<"Bell">>)>> >>)>> >>)

ChimeTiming == JDict(<< <<"se", JDict(<< <<"name", JStr(<<"Chime">>)>> >>)>> >>)

\* a project whose skill plays animation A of a database with one animation,
\* of effect E with sound timings ST; only the container of Fire is on disk
AnimationProject(A, E, ST) ==
    (<<"Game", DOT, "exe">> :> Blob)
    @@ (<<"js", SL, "main", DOT, "js">> :> TextFile(<<"effekseerWasmUrl">>))
    @@ (<<"js", SL, "plugins", DOT, "js">> :> PluginsJs(JList(<<>>)))
    @@ (<<"data", SL, "Animations", DOT, "json">> :>
          JsonFile(JList(<<JNull,
                           JDict(<< <<"id", JInt(1)>>,
                                    <<"effectName", JStr(<<E>>)>>,
                                    <<"soundTimings", JList(ST)>> >>)>>)))
    @@ (<<"data", SL, "Skills", DOT, "json">> :>
          JsonFile(JList(<<JNull,
                           JDict(<< <<"id", JInt(1)>>,
                                    <<"animationId", JInt(A)>> >>)>>)))
    @@ (<<"effects", SL, "Fire", DOT, "efkefc">> :>
          Container(<< <<"Spark", DOT, "png">>, <<"Glow", DOT, "png">> >>))
    @@ (<<"effects", SL, "Spark", DOT, "png">> :> Blob)
    @@ (<<"effects", SL, "Glow", DOT, "png">> :> Blob)
    @@ (<<"audio", SL, "se", SL, "Bell", DOT, "ogg">> :> Blob)
    @@ (<<"img", SL, "Orphan", DOT, "png">> :> Blob)

\* a project with one plugin whose source holds the text ref and whose
\* parameter string is params, a locale package with its sidecar, a save file
LocaleProject(ref, params) ==
    (<<"Game", DOT, "exe">> :> Blob)
    @@ (<<"js", SL, "main", DOT, "js">> :>
          TextFile(<<Q, "js", SL, "libs", SL, "pixi", DOT, "js", Q>>))
    @@ (<<"js", SL, "plugins", DOT, "js">> :>
          PluginsJs(JList(<<JDict(<< <<"name", JStr(<<"Foo">>)>>,
                                     <<"parameters", JStr(params)>> >>)>>)))
    @@ (<<"js", SL, "plugins", SL, "Foo", DOT, "js">> :> TextFile(ref))
    @@ (<<"locales", SL, "en", DOT, "pak">> :> Blob)
    @@ (<<"locales", SL, "en", DOT, "pak", DOT, "info">> :> Blob)
    @@ (<<"save", SL, "file1", DOT, "rmmzsave">> :> Blob)

\* a descriptor of the plugin list
Descriptor(kvs) == JDict(kvs)

\* a project whose js/plugins.js is the file manifest
ManifestProject(manifest) ==
    (<<"Game", DOT, "exe">> :> Blob)
    @@ (<<"js", SL, "main", DOT, "js">> :> TextFile(<<>>))
    @@ (<<"js", SL, "plugins", DOT, "js">> :> manifest)
    @@ (<<"js", SL, "plugins", SL, "Foo", DOT, "js">> :> TextFile(<<>>))
    @@ (<<"img", SL, "Orphan", DOT, "png">> :> Blob)

\* manifests that cannot be read as a plugin list: no bracket, no JSON between
\* the brackets, a descriptor without a name
BadManifests ==
    {TextFile(<<"var", SEP, "$plugins", SEP, "=", SEP, ";">>),
     TextFile(<<"var", SEP, "$plugins", SEP, "=", SEP, LB, "Foo", RB, ";">>),
     PluginsJs(JList(<<Descriptor(<< <<"name", JStr(<<"Foo">>)>> >>),
                       Descriptor(<< <<"status", JInt(1)>> >>)>>))}

\* the animation project with a database that is no JSON
BrokenDatabaseProject ==
    [AnimationProject(1, "Fire", <<BellTiming>>) EXCEPT
        ![<<"data", SL, "Animations", DOT, "json">>] = TextFile(<<LC>>)]

\* a project without an animation database whose data/Skills.json holds doc
IdsProject(doc) ==
    (<<"Game", DOT, "exe">> :> Blob)
    @@ (<<"js", SL, "main", DOT, "js">> :> TextFile(<<>>))
    @@ (<<"js", SL, "plugins", DOT, "js">> :> PluginsJs(JList(<<>>)))
    @@ (<<"data", SL, "Skills", DOT, "json">> :> JsonFile(doc))
    @@ (<<"img", SL, "Orphan", DOT, "png">> :> Blob)

\* a record with a second id nested below the first, a top-level object,
\* a negative id that is not -1
IdDocs ==
    {JList(<<JNull,
             JDict(<< <<"id", JInt(1)>>,
                      <<"animationId", JInt(1)>>,
                      <<"effects", JList(<<JDict(<< <<"animationId", JInt(2)>> >>)>>)>> >>)>>),
     JDict(<< <<"animationId", JInt(1)>> >>),
     JList(<<JNull, JDict(<< <<"id", JInt(1)>>, <<"animationId", JInt(-2)>> >>)>>)}

\* a project with tool directories beside its image directory
ExclusionProject ==
    (<<"Game", DOT, "exe">> :> Blob)
    @@ (<<"js", SL, "main", DOT, "js">> :> TextFile(<<>>))
    @@ (<<"js", SL, "plugins", DOT, "js">> :> PluginsJs(JList(<<>>)))
    @@ (<<DOT, "git", SL, "Orphan", DOT, "png">> :> Blob)
    @@ (<<DOT, "vs", SL, "Orphan", DOT, "png">> :> Blob)
    @@ (<<"DatabaseCleanUpTool", SL, "Orphan", DOT, "png">> :> Blob)
    @@ (<<"img", SL, "Orphan", DOT, "png">> :> Blob)

Projects ==
    {TilesetProject(T, names) :
        T \in {1, 2},
        names \in {<<JStr(<<"Outside">>)>>, <<JStr(<<"Outside">>), JStr(<<>>)>>}}
    \cup {AnimationProject(1, "Fire", <<BellTiming>>),
          AnimationProject(2, "Fire", <<BellTiming>>),
          AnimationProject(1, "Ice", <<BellTiming>>),
          AnimationProject(1, "Fire", <<JList(<<BellTiming>>)>>),
          AnimationProject(1, "Fire", <<BellTiming, JList(<<ChimeTiming>>)>>)}
    \cup {LocaleProject(<<APOS, "en", DOT, "pak", APOS>>, <<>>),
          LocaleProject(<<Q, "locales", SL, "en", DOT, "pak", Q>>, <<>>),
          LocaleProject(<<>>, <<>>),
          LocaleProject(<<APOS, "en", DOT, "pak", APOS>>,
                        <<"AttackAnimation:num", ESC5, "1">>)}
    \cup {ManifestProject(m) : m \in BadManifests}
    \cup {BrokenDatabaseProject}
    \cup {IdsProject(doc) : doc \in IdDocs}
    \cup {ExclusionProject}

\* the files of project rel below the directory root
MkFs(root, rel) ==
    [p \in {Join(root, r) : r \in DOMAIN rel} |-> rel[SubSeq(p, Len(root) + 2, Len(p))]]

GemIdle ==
    /\ gpc = "idle"
    /\ gfiles = <<>>
    /\ gcode_files = {}
    /\ gused_files = {}
    /\ ganimations = {}
    /\ gse = Unbound
    /\ gtodo = {}
    /\ gresult = <<>>

PngIdle ==
    /\ data = <<>>
    /\ png_files = <<>>

\* load_cached_json was not called yet outside a run
CacheIdle ==
    /\ calls = 0
    /\ asked = <<>>
    /\ returned = Unbound
    /\ opens = [p \in {} |-> 0]

\* no deleting thread was started: delete_unused_files iterates nothing
NoDeleter == [pc |-> "none", live |-> FALSE, files |-> {}, size |-> 0, seen |-> {}]

\* Stage_Project.py was not started
StageIdle ==
    /\ repo_path = NoPath
    /\ staging_base = NoPath
    /\ staging_path = NoPath
    /\ spc = "idle"
    /\ rmtree = NoPath
    /\ scopy = {}

\* the window is open, no button was pressed
GuiIdle ==
    /\ wpc = [r \in 1..MaxRuns |-> "none"]
    /\ wtodo = [r \in 1..MaxRuns |-> {}]
    /\ packed = FALSE
    /\ deleter = NoDeleter
    /\ wcount = [r \in 1..MaxRuns |-> 0]
    /\ called = {}

\* the matcher was not called on its own
MatchIdle ==
    /\ haystack = <<>>
    /\ wanted = NoPath
    /\ verdict = <<>>
    /\ gverdict = <<>>

\* no deletion was confirmed yet
DelIdle ==
    /\ dpc = "idle"
    /\ dgiven = <<>>
    /\ dtodo = <<>>
    /\ gdtodo = <<>>
    /\ di = 0
    /\ attempted = {}
    /\ gattempted = {}
    /\ after = <<>>

\* the module-level globals, with the window open and no run started
MainIdle ==
    /\ pc = "idle"
    /\ runs = 0
    /\ used_files = {}
    /\ unused_files = {}
    /\ code_files = {}
    /\ animations = {}
    /\ cached_json = EmptyMap
    /\ test_count = 0
    /\ file_references = EmptyMap
    /\ files_used_in = EmptyMap
    /\ animations_lookup = <<>>
    /\ file_path = NoPath
    /\ filepath = NoPath
    /\ file = NoPath
    /\ se = Unbound
    /\ todo = {}
    /\ log = {}
    /\ result = <<>>
    /\ results = <<>>

Init ==
    /\ \E root \in ProjectRoots, rel \in Projects :
          /\ directory = root
          /\ fs = MkFs(root, rel)
    /\ MainIdle
    /\ GemIdle
    /\ PngIdle
    /\ DelIdle
    /\ CacheIdle
    /\ MatchIdle
    /\ GuiIdle
    /\ StageIdle

-----------------------------------------------------------------------------
(* find_unused_files of src/Unused_assets.py, one action per phase or loop pass. *)
(* os.path.join is taken on a platform whose separator is "/".                   *)

\* a removal written as an insertion
DiscardInverted(S, xs) == S \cup xs

\* if x in unused_files: unused_files.remove(x), for every x of xs
Discard(S, xs) == S \ xs

\* a provenance map that records nothing
AddNone(d, ks, x) == d

\* d.setdefault(k, set()).add(x) for every k of ks
AddAll(d, ks, x) ==
    [k \in DOMAIN d \cup ks |->
        IF k \in ks THEN (IF k \in DOMAIN d THEN d[k] ELSE {}) \cup {x} ELSE d[k]]

\* d.setdefault(k, set()).update(xs)
AddSet(d, k, xs) ==
    [j \in DOMAIN d \cup {k} |->
        IF j = k THEN (IF k \in DOMAIN d THEN d[k] ELSE {}) \cup xs ELSE d[j]]

\* run_finder resets the globals and starts the worker, which enters
\* find_unused_files with fresh locals.  A run starts when no worker is running.
RunFinder ==
    /\ pc \in {"idle", "done", "aborted"}
    /\ runs < MaxRuns
    /\ runs' = runs + 1
    /\ unused_files' = {}
    /\ used_files' = {}
    /\ code_files' = {}
    /\ animations' = {}
    /\ test_count' = 0
    /\ file_references' = EmptyMap
    /\ files_used_in' = EmptyMap
    /\ animations_lookup' = <<>>
    /\ file_path' = NoPath
    /\ filepath' = NoPath
    /\ file' = NoPath
    /\ se' = Unbound
    /\ todo' = {}
    /\ result' = <<>>
    /\ pc' = "lookup"
    /\ UNCHANGED <<inputVars, cached_json, log, results, gemVars, pngVars, delVars, cacheVars, matchVars, guiVars, stageVars>>

\* animations_lookup = load_animations_json(os.path.join(directory, 'data'))
LoadAnimationsLookup ==
    /\ pc = "lookup"
    /\ IF Exists(AnimationsJson)
       THEN LET cache == load_cached_json(cached_json, AnimationsJson)
            IN  /\ cached_json' = cache
                /\ log' = log \cup LoadLog(cached_json, AnimationsJson)
                /\ IF LookupRaises(cache[AnimationsJson])
                   THEN pc' = "aborted" /\ animations_lookup' = animations_lookup
                   ELSE pc' = "seed" /\ animations_lookup' = LookupList(cache[AnimationsJson])
       ELSE pc' = "seed" /\ UNCHANGED <<cached_json, log, animations_lookup>>
    /\ UNCHANGED <<inputVars, runs, used_files, unused_files, code_files, animations,
                   file_references, files_used_in, file_path, filepath, file, se,
                   test_count, todo, result, results, gemVars, pngVars, delVars, cacheVars, matchVars, guiVars, stageVars>>

\* if 'DatabaseCleanUpTool' in subdir: continue
Skipped(subdir) == WordIn("DatabaseCleanUpTool", subdir)

\* the directories of the walk whose files the seeding loop iterates
SeedDirs == {d \in WalkDirs(directory) : ~Skipped(d)}

\* the walk over the project: root files are used, the other files are candidates
Seed ==
    /\ pc = "seed"
    /\ LET walked == UNION {FilesIn(d) : d \in SeedDirs}
           root == {p \in walked : Dirname(p) = directory}
           rest == {p \in walked \ root : ~EndsWithWord(p, "rmmzsave")}
       IN  /\ used_files' = used_files \cup root
           /\ unused_files' = unused_files \cup rest
           /\ file_references' =
                 IF SeedDirs = {} THEN file_references
                 ELSE [Reset(file_references, <<"root">>) EXCEPT
                          ![<<"root">>] = IF SeedDirs = {directory} THEN root ELSE {}]
           /\ files_used_in' = AddAll(files_used_in, root, <<"root">>)
           /\ IF walked = {}
              THEN UNCHANGED <<file_path, file>>
              ELSE \E last \in LastWalked(walked) :
                      /\ file_path' = last
                      /\ file' = Basename(last)
    /\ pc' = "plugins"
    /\ UNCHANGED <<inputVars, runs, code_files, animations, cached_json,
                   animations_lookup, filepath, se, test_count, todo, log, result,
                   results, gemVars, pngVars, delVars, cacheVars, matchVars, guiVars, stageVars>>

\* a plugin path built without the js directory
PluginFileFlat(plugin_name) == Join(directory, plugin_name)

\* os.path.join(directory, 'js', plugin_name)
PluginFile(plugin_name) == Join(JsDir, plugin_name)

\* the plugin sources and the core scripts become code files and used files
Plugins ==
    /\ pc = "plugins"
    /\ log' = log \cup (IF Exists(PluginsFile) /\ PluginsError(PluginsFile) # ""
                        THEN {Log("Error loading plugins.js", PluginsFile)} ELSE {})
    /\ IF PluginsRaise
       THEN /\ pc' = "aborted"
            /\ UNCHANGED <<used_files, unused_files, code_files, file_references,
                           files_used_in>>
       ELSE LET plugin_files == {PluginFile(n) : n \in get_used_plugins}
            IN  /\ code_files' = code_files \cup plugin_files
                /\ used_files' = used_files \cup plugin_files
                /\ unused_files' = Discard(unused_files, plugin_files)
                /\ file_references' = AddAll(file_references, plugin_files, <<DOT>>)
                /\ files_used_in' = AddAll(files_used_in, plugin_files, <<DOT>>)
                /\ pc' = "data"
    /\ UNCHANGED <<inputVars, runs, animations, cached_json, animations_lookup,
                   file_path, filepath, file, se, test_count, todo, result, results,
                   gemVars, pngVars, delVars, cacheVars, matchVars, guiVars, stageVars>>

\* the files below <directory>/data
DataFiles == {p \in DOMAIN fs : StartsWith(p, DataDir \o <<SL>>)}

\* file.endswith('.js') or file.endswith('.json')
IsCode(p) == EndsWith(p, <<DOT, "js">>) \/ EndsWith(p, <<DOT, "json">>)

\* every js/json below data becomes a code file and a used file
DataCodeFiles ==
    /\ pc = "data"
    /\ LET found == {p \in DataFiles : IsCode(p)}
       IN  /\ code_files' = code_files \cup found
           /\ used_files' = used_files \cup found
           /\ unused_files' = Discard(unused_files, found)
           /\ file_references' = AddAll(file_references, found, <<DOT>>)
           /\ files_used_in' = AddAll(files_used_in, found, <<DOT>>)
           /\ IF found = {} THEN file_path' = file_path
              ELSE file_path' \in LastWalked(found)
           /\ IF DataFiles = {} THEN file' = file
              ELSE file' \in {Basename(p) : p \in LastWalked(DataFiles)}
    /\ pc' = "effekseer"
    /\ UNCHANGED <<inputVars, runs, animations, cached_json, animations_lookup,
                   filepath, se, test_count, todo, log, result, results, gemVars,
                   pngVars, delVars, cacheVars, matchVars, guiVars, stageVars>>

\* 'effekseerWasmUrl' in main.js puts the bare word into used_files
MainEffekseer ==
    /\ pc = "effekseer"
    /\ LET word == <<"effekseerWasmUrl">>
           found == WordIn("effekseerWasmUrl", get_content_from_file(MainFile))
       IN  /\ used_files' = IF found THEN used_files \cup {word} ELSE used_files
           /\ unused_files' = IF found THEN Discard(unused_files, {word}) ELSE unused_files
           /\ files_used_in' =
                 IF found /\ word \in unused_files
                 THEN AddTo(files_used_in, word, MainFile) ELSE files_used_in
    /\ pc' = "collect"
    /\ UNCHANGED <<inputVars, runs, code_files, animations, cached_json,
                   file_references, animations_lookup, file_path, filepath, file, se,
                   test_count, todo, log, result, results, gemVars, pngVars, delVars, cacheVars, matchVars, guiVars, stageVars>>

\* animation ids named by the JSON code files and by the plugin parameters
CollectAnimationIds ==
    /\ pc = "collect"
    /\ LET jsons == {f \in code_files : EndsWith(f, <<DOT, "json">>)}
           cache == LoadAll(cached_json, jsons)
       IN  /\ cached_json' = cache
           /\ animations' =
                 animations
                 \cup UNION {IdsOfItems(ItemsOf(cache[f])).ids : f \in jsons}
                 \cup (IF Exists(PluginsFile)
                       THEN get_animation_ids(get_content_from_file(PluginsFile))
                       ELSE {})
           /\ log' = log
                 \cup UNION {LoadLog(cached_json, f) : f \in jsons}
                 \cup {Log("Error reading", f) : f \in {g \in jsons : CollectRaises(cache[g])}}
    /\ IF code_files = {} THEN filepath' = filepath ELSE filepath' \in code_files
    /\ pc' = "tilesets"
    /\ UNCHANGED <<inputVars, runs, used_files, unused_files, code_files,
                   file_references, files_used_in, animations_lookup, file_path, file,
                   se, test_count, todo, result, results, gemVars, pngVars, delVars, cacheVars, matchVars, guiVars, stageVars>>

\* the maps name tilesets, the tilesets name images; both loops run over
\* code_files in the order the collecting loop had, so filepath ends as it was
Tilesets ==
    /\ pc = "tilesets"
    /\ LET maps == {f \in code_files : IsMapFile(f)}
           cache0 == LoadAll(cached_json, maps)
           needed == \E f \in maps :
                        cache0[f].t = "dict" /\ ~IsNone(GetOr(cache0[f], "tilesetId", JNull))
           cache == IF needed THEN load_cached_json(cache0, TilesetsJson) ELSE cache0
           step == [f \in maps |-> MapStep(cache, f)]
           used_tilesets == UNION {step[f].names : f \in maps}
           named == {n \in used_tilesets : n.t = "str"}
           pngs == {TilesetPng(n.v) : n \in named}
           shown == {TilesetPng(n.v) : n \in {m \in named : m.v # <<>>}}
       IN  /\ cached_json' = cache
           /\ log' = log
                 \cup UNION {LoadLog(cached_json, f) : f \in maps}
                 \cup (IF needed THEN LoadLog(cache0, TilesetsJson) ELSE {})
                 \cup UNION {step[f].log : f \in maps}
                 \cup (IF JStr(<<>>) \in used_tilesets
                       THEN {Log("Warning: Tileset name is empty", <<>>)} ELSE {})
           /\ file_references' =
                 [k \in DOMAIN file_references \cup code_files |->
                     IF k \in maps THEN step[k].tuples
                     ELSE IF k \in code_files THEN {}
                     ELSE file_references[k]]
           /\ IF named = used_tilesets
              THEN /\ used_files' = used_files \cup pngs
                   /\ unused_files' = Discard(unused_files, pngs)
                   /\ files_used_in' = AddAll(files_used_in, shown, filepath)
                   /\ todo' = code_files
                   /\ pc' = "sweep"
              ELSE \* tileset_name + '.png' raises on a name that is no string
                   \E done \in SUBSET pngs :
                      /\ used_files' = used_files \cup done
                      /\ unused_files' = Discard(unused_files, done)
                      /\ files_used_in' =
                            AddAll(files_used_in, done \cap shown, filepath)
                      /\ todo' = todo
                      /\ pc' = "aborted"
    /\ UNCHANGED <<inputVars, runs, code_files, animations, animations_lookup,
                   file_path, filepath, file, se, test_count, result, results,
                   gemVars, pngVars, delVars, cacheVars, matchVars, guiVars, stageVars>>

\* one pass of the sweep: the code file f against a copy of the candidates
SweepFile ==
    /\ pc = "sweep"
    /\ \E f \in todo :
          /\ todo' = todo \ {f}
          /\ filepath' = f
          /\ test_count' = test_count + 1
          /\ IF Exists(f)
             THEN LET content == get_content_from_file(f)
                      matched == {c \in unused_files : search_content_for_file(content, f, c)}
                      moved == matched \cup InfoFiles(matched)
                  IN  /\ used_files' = used_files \cup moved
                      /\ unused_files' = Discard(unused_files, moved)
                      /\ file_references' = AddSet(file_references, f, moved)
                      /\ files_used_in' = AddAll(files_used_in, moved, f)
                      /\ IF unused_files = {} THEN file' = file
                         ELSE file' \in unused_files
                      /\ log' = log
             ELSE /\ log' = log \cup {Log("Error reading", f)}
                  /\ UNCHANGED <<used_files, unused_files, file_references,
                                 files_used_in, file>>
    /\ UNCHANGED <<inputVars, pc, runs, code_files, animations, cached_json,
                   animations_lookup, file_path, se, result, results, gemVars,
                   pngVars, delVars, cacheVars, matchVars, guiVars, stageVars>>

\* file_references['animations'] = set(); for animation_id in animations
StartAnimations ==
    /\ pc = "sweep"
    /\ todo = {}
    /\ file_references' = Reset(file_references, <<"animations">>)
    /\ todo' = animations
    /\ pc' = "animations"
    /\ UNCHANGED <<inputVars, runs, globalVars, files_used_in, animations_lookup,
                   file_path, filepath, file, se, test_count, log, result, results,
                   gemVars, pngVars, delVars, cacheVars, matchVars, guiVars, stageVars>>

\* item['id'] succeeds
HasId(item) == item.t = "dict" /\ HasKey(item, "id")

\* item and item['id'] == animation_id
IsAnimation(item, id) == Truthy(item) /\ HasId(item) /\ Item(item, "id") = id

\* the search for the record raises before it finds one
FindRaises(animations_data, id) ==
    \/ animations_data.t \in {"null", "int"}
    \/ LET items == ItemsOf(animations_data)
       IN  \E i \in 1..Len(items) :
              /\ Truthy(items[i])
              /\ ~HasId(items[i])
              /\ \A j \in 1..(i - 1) : ~IsAnimation(items[j], id)

\* next((item for item in animations_data if item and item['id'] == animation_id), None)
FindAnimation(animations_data, id) ==
    LET hits == SelectSeq(ItemsOf(animations_data), LAMBDA x : IsAnimation(x, id))
    IN  IF hits = <<>> THEN JNull ELSE Head(hits)

\* a container path built without its extension
EffectFileBare(effect_name) == Join(EffectsDir, NameText(effect_name))

\* os.path.join(directory, 'effects', f"{effect_name}.efkefc")
EffectFile(effect_name) == Join(EffectsDir, NameText(effect_name) \o <<DOT, "efkefc">>)

\* os.path.join(directory, 'audio', 'se', sound_file + '.ogg')
AudioFile(sound_file) ==
    Join(Join(Join(directory, <<"audio">>), <<"se">>), sound_file \o <<DOT, "ogg">>)

RECURSIVE SoundFold(_, _)
\* the loop over the sound timings from the state st = [se, sounds, named, printed]:
\* the state it ends in, and whether it ended by raising
SoundFold(timings, st) ==
    IF timings = <<>> THEN [st EXCEPT !.raised = FALSE]
    ELSE LET timing == Head(timings)
             stop == [st EXCEPT !.raised = TRUE]
         IN  IF timing.t = "dict"
             THEN IF ~HasKey(timing, "se") THEN stop
                  ELSE LET se_data == Item(timing, "se")
                       IN  IF se_data.t # "dict" \/ ~HasKey(se_data, "name") THEN stop
                           ELSE LET name == Item(se_data, "name")
                                IN  IF ~Hashable(name) THEN [stop EXCEPT !.se = name]
                                    ELSE SoundFold(Tail(timings),
                                            [st EXCEPT !.se = name,
                                                       !.sounds = @ \cup {name},
                                                       !.named = @ \cup {name}])
             ELSE IF st.se.t = "unbound" THEN stop
             ELSE IF st.se.t = "str"
             THEN SoundFold(Tail(timings), [st EXCEPT !.sounds = @ \cup {st.se}])
             ELSE IF timing.t = "list"
             THEN IF \E i \in 1..Len(timing.v) : timing.v[i].t = "dict" THEN stop
                  ELSE SoundFold(Tail(timings), st)
             ELSE SoundFold(Tail(timings), [st EXCEPT !.printed = TRUE])

\* one pass of the animation loop, for the id
AnimStep ==
    /\ pc = "animations"
    /\ \E id \in todo :
          LET cache == load_cached_json(cached_json, AnimationsJson)
              animations_data == cache[AnimationsJson]
              animation_data == FindAnimation(animations_data, id)
              hits == SelectSeq(animations_lookup, LAMBDA e : e[2] = id)
              effect_file == EffectFile(Head(hits)[1])
              keyRaises == file_path = NoPath
                           \/ (effect_file \in DOMAIN files_used_in
                               /\ file_path \notin DOMAIN files_used_in)
              where == (IF effect_file \in DOMAIN files_used_in
                        THEN files_used_in[file_path] ELSE {}) \cup {AnimationsJson}
              timings == GetOr(animation_data, "soundTimings", JList(<<>>))
              fold == SoundFold(ItemsOf(timings),
                                [se |-> se, sounds |-> {}, named |-> {},
                                 printed |-> FALSE, raised |-> FALSE])
              names == {NameText(n) : n \in fold.named}
              audio == {AudioFile(n.v) : n \in {m \in fold.sounds : m.t = "str"}}
          IN  /\ todo' = todo \ {id}
              /\ cached_json' = cache
              /\ IF FindRaises(animations_data, id)
                 THEN /\ pc' = "aborted"
                      /\ log' = log \cup LoadLog(cached_json, AnimationsJson)
                      /\ UNCHANGED <<used_files, unused_files, file_references,
                                     files_used_in, se>>
                 ELSE IF IsNone(animation_data)
                 THEN /\ pc' = pc
                      /\ log' = log \cup {Log("Warning: Animation not found", Dump(id))}
                      /\ UNCHANGED <<used_files, unused_files, file_references,
                                     files_used_in, se>>
                 ELSE IF hits = <<>>
                 THEN /\ pc' = pc
                      /\ log' = log
                      /\ UNCHANGED <<used_files, unused_files, file_references,
                                     files_used_in, se>>
                 ELSE IF keyRaises
                 THEN /\ pc' = "aborted"
                      /\ log' = log
                      /\ used_files' = used_files \cup {effect_file}
                      /\ file_references' =
                            AddSet(file_references, <<"animations">>, {effect_file})
                      /\ UNCHANGED <<unused_files, files_used_in, se>>
                 ELSE IF timings.t \in {"null", "int"} \/ fold.raised
                 THEN /\ pc' = "aborted"
                      /\ log' = log
                      /\ used_files' = used_files \cup {effect_file}
                      /\ unused_files' = Discard(unused_files, {effect_file})
                      /\ file_references' =
                            AddSet(file_references, <<"animations">>,
                                   {effect_file}
                                   \cup (IF timings.t \in {"null", "int"} THEN {} ELSE names))
                      /\ files_used_in' =
                            AddAll([files_used_in EXCEPT ![file_path] = where]
                                       @@ (file_path :> where),
                                   IF timings.t \in {"null", "int"} THEN {} ELSE names,
                                   AnimationsJson)
                      /\ se' = IF timings.t \in {"null", "int"} THEN se ELSE fold.se
                 ELSE \E done \in (IF \A n \in fold.sounds : n.t = "str"
                                   THEN {audio} ELSE SUBSET audio) :
                      /\ pc' = IF \A n \in fold.sounds : n.t = "str" THEN pc ELSE "aborted"
                      /\ log' = log \cup (IF fold.printed
                                          THEN {Log("Timing data is something else", <<>>)}
                                          ELSE {})
                      /\ used_files' = used_files \cup {effect_file} \cup done
                      /\ unused_files' = Discard(unused_files, {effect_file} \cup done)
                      /\ file_references' =
                            AddSet(file_references, <<"animations">>,
                                   {effect_file} \cup names \cup done)
                      /\ files_used_in' =
                            AddAll([files_used_in EXCEPT ![file_path] = where]
                                       @@ (file_path :> where),
                                   names \cup done, AnimationsJson)
                      /\ se' = fold.se
    /\ UNCHANGED <<inputVars, runs, code_files, animations, animations_lookup,
                   file_path, filepath, file, test_count, result, results, gemVars,
                   pngVars, delVars, cacheVars, matchVars, guiVars, stageVars>>

\* for effect_file in used_files.copy(): if effect_file.endswith('.efkefc')
StartContainers ==
    /\ pc = "animations"
    /\ todo = {}
    /\ todo' = {u \in used_files : EndsWith(u, <<DOT, "efkefc">>)}
    /\ pc' = "containers"
    /\ UNCHANGED <<inputVars, runs, globalVars, file_references, files_used_in,
                   animations_lookup, file_path, filepath, file, se, test_count, log,
                   result, results, gemVars, pngVars, delVars, cacheVars, matchVars, guiVars, stageVars>>

RECURSIVE PngFold(_, _, _)
\* the loop over the names a container holds, from st = [used, unused, names],
\* with the candidate loop's variable `file` as the sweep left it
PngFold(pngs, f, st) ==
    IF pngs = <<>> THEN st
    ELSE LET full_path == Join(EffectsDir, Head(pngs))
         IN  PngFold(Tail(pngs), f,
                IF full_path \in st.unused
                THEN [used |-> st.used \cup {full_path},
                      unused |-> IF f \in st.unused
                                 THEN st.unused \ {full_path} ELSE st.unused,
                      names |-> st.names \cup {Head(pngs)}]
                ELSE st)

\* one pass of the container loop, for the used container e
EffectStep ==
    /\ pc = "containers"
    /\ \E e \in todo :
          /\ todo' = todo \ {e}
          /\ IF Readable(e)
             THEN LET fold == PngFold(extract_png_filenames(e), file,
                                      [used |-> used_files, unused |-> unused_files,
                                       names |-> {}])
                  IN  /\ used_files' = fold.used
                      /\ unused_files' = fold.unused
                      /\ file_references' =
                            [Reset(file_references, <<"effect_file">>) EXCEPT
                                ![<<"effect_file">>] = fold.names]
                      /\ files_used_in' = AddAll(files_used_in, fold.names, e)
                      /\ log' = log
             ELSE /\ file_references' = Reset(file_references, <<"effect_file">>)
                  /\ log' = log \cup {Log("Error reading", e)}
                  /\ UNCHANGED <<used_files, unused_files, files_used_in>>
    /\ UNCHANGED <<inputVars, pc, runs, code_files, animations, cached_json,
                   animations_lookup, file_path, filepath, file, se, test_count,
                   result, results, gemVars, pngVars, delVars, cacheVars, matchVars, guiVars, stageVars>>

\* return list(sorted(unused_files)), used_files, file_references, files_used_in
Return ==
    /\ pc = "containers"
    /\ todo = {}
    /\ result' = <<SortedSeq(unused_files)>>
    /\ results' = Append(results, SortedSeq(unused_files))
    /\ pc' = "done"
    /\ UNCHANGED <<inputVars, runs, globalVars, localVars, log, gemVars, pngVars, delVars, cacheVars, matchVars, guiVars, stageVars>>

Next ==
    \/ RunFinder
    \/ LoadAnimationsLookup
    \/ Seed
    \/ Plugins
    \/ DataCodeFiles
    \/ MainEffekseer
    \/ CollectAnimationIds
    \/ Tilesets
    \/ SweepFile
    \/ StartAnimations
    \/ AnimStep
    \/ StartContainers
    \/ EffectStep
    \/ Return

Spec == Init /\ [][Next]_vars

-----------------------------------------------------------------------------
(* find_unused_files of src/Unused_assets_Gem.py, the earlier revision.  It keeps *)
(* its candidates in the list `files`, in the order of the walk, reads every     *)
(* JSON file anew and catches what its loops raise.  Every loop over code_files   *)
(* only adds to sets, so the model keeps the members of that list.               *)

\* 'DatabaseCleanUpTool' in subdir or '.git' in subdir or '.vs' in subdir
GemSkipped(subdir) ==
    \/ WordIn("DatabaseCleanUpTool", subdir)
    \/ Contains(subdir, <<DOT, "git">>)
    \/ Contains(subdir, <<DOT, "vs">>)

\* file.endswith(('.js', '.json')) and 'Animations.json' not in file
\* and 'Tilesets.json' not in file
GemIsCode(p) ==
    /\ IsCode(p)
    /\ ~Contains(Basename(p), <<"Animations", DOT, "json">>)
    /\ ~Contains(Basename(p), <<"Tilesets", DOT, "json">>)

RECURSIVE Perms(_)
\* the orderings of a set
Perms(S) ==
    IF S = {} THEN {<<>>}
    ELSE UNION {{<<x>> \o q : q \in Perms(S \ {x})} : x \in S}

\* the orders in which a top-down walk can list the files S: a directory's
\* files together, before the files of the directories below it
WalkOrders(S) ==
    {q \in Perms(S) :
        /\ \A i, j \in 1..Len(q) :
              i < j => ~StartsWith(Dirname(q[i]), Dirname(q[j]) \o <<SL>>)
        /\ \A i, j, k \in 1..Len(q) :
              (i < j /\ j < k /\ Dirname(q[i]) = Dirname(q[k]))
                 => Dirname(q[j]) = Dirname(q[i])}

\* json.load of the file, None standing for a load that raises
Loaded(p) == IF JsonLoads(p) THEN fs[p].doc ELSE JNull

\* the revision's matcher: the subdirectory form ends with the closing quote
GemSearch(content, source_file, target_file) ==
    IF EndsWith(source_file, <<DOT, "efkefc">>)
    THEN EndsWith(target_file, <<DOT, "png">>) /\ Contains(content, Basename(target_file))
    ELSE LET base_file == Basename(target_file)
             name_file == Stem(base_file)
         IN  \/ Contains(content, <<Q>> \o name_file \o <<Q>>)
             \/ Contains(content, <<SL>> \o name_file \o <<Q>>)
             \/ Contains(content, name_file \o <<BS>>)
             \/ Contains(content, base_file)

\* the lookup and the walk
GemStart ==
    /\ gpc = "idle"
    /\ IF Exists(AnimationsJson) /\ LookupRaises(Loaded(AnimationsJson))
       THEN /\ gpc' = "aborted"
            /\ UNCHANGED <<gfiles, gcode_files>>
       ELSE LET walked == UNION {FilesIn(d) : d \in {e \in WalkDirs(directory) : ~GemSkipped(e)}}
                code == {p \in walked : GemIsCode(p)}
                rest == {p \in walked \ code : ~EndsWithWord(p, "rmmzsave")}
            IN  /\ gcode_files' = code
                /\ gfiles' \in WalkOrders(rest)
                /\ gpc' = "collect"
    /\ UNCHANGED <<inputVars, mainVars, gused_files, ganimations, gse, gtodo, gresult,
                   pngVars, delVars, cacheVars, matchVars, guiVars, stageVars>>

\* the truthy animationId values of a file's items, -1 left out
GemIds(doc) ==
    {id \in {extract_key_value(ItemsOf(doc)[i], "animationId") : i \in 1..Len(ItemsOf(doc))} :
        Truthy(id) /\ id # JInt(-1)}

\* the animation ids of the JSON code files and of the plugin parameters
GemCollect ==
    /\ gpc = "collect"
    /\ LET jsons == {f \in gcode_files : EndsWith(f, <<DOT, "json">>)}
       IN  /\ ganimations' =
                 UNION {GemIds(Loaded(f)) : f \in jsons}
                 \cup (IF Exists(PluginsFile)
                       THEN get_animation_ids(get_content_from_file(PluginsFile))
                       ELSE {})
           /\ log' = log \cup {Log("Error reading", f) :
                                 f \in {g \in jsons : Loaded(g).t \in {"null", "int"}}}
    /\ gpc' = "tilesets"
    /\ UNCHANGED <<inputVars, pc, runs, globalVars, localVars, result, results, gfiles,
                   gcode_files, gused_files, gse, gtodo, gresult, pngVars, delVars, cacheVars, matchVars, guiVars, stageVars>>

\* the maps name tilesets, every name becomes an image path
GemTilesets ==
    /\ gpc = "tilesets"
    /\ LET maps == {f \in gcode_files : IsMapFile(f)}
           loaded == [p \in maps \cup {TilesetsJson} |-> Loaded(p)]
           step == [f \in maps |-> MapStep(loaded, f)]
           used_tilesets == UNION {step[f].names : f \in maps}
           named == {n \in used_tilesets : n.t = "str"}
           pngs == {TilesetPng(n.v) : n \in named}
       IN  /\ log' = log \cup UNION {step[f].log : f \in maps}
           /\ IF named = used_tilesets
              THEN gused_files' = gused_files \cup pngs /\ gpc' = "sweep"
              ELSE /\ gused_files' \in {gused_files \cup done : done \in SUBSET pngs}
                   /\ gpc' = "aborted"
    /\ UNCHANGED <<inputVars, pc, runs, globalVars, localVars, result, results, gfiles,
                   gcode_files, ganimations, gse, gtodo, gresult, pngVars, delVars, cacheVars, matchVars, guiVars, stageVars>>

\* every code file against every candidate
GemSweep ==
    /\ gpc = "sweep"
    /\ gused_files' =
          gused_files
          \cup {c \in Range(gfiles) :
                  \E f \in gcode_files :
                     Exists(f) /\ GemSearch(get_content_from_file(f), f, c)}
    /\ gtodo' = ganimations
    /\ gpc' = "animations"
    /\ UNCHANGED <<inputVars, mainVars, gfiles, gcode_files, ganimations, gse, gresult,
                   pngVars, delVars, cacheVars, matchVars, guiVars, stageVars>>

\* one pass of the animation loop, for the id; what it raises is caught
GemAnimStep ==
    /\ gpc = "animations"
    /\ \E id \in gtodo :
          LET animations_data == Loaded(AnimationsJson)
              animation_data == FindAnimation(animations_data, id)
              lookup == IF Exists(AnimationsJson)
                        THEN LookupList(Loaded(AnimationsJson)) ELSE <<>>
              hits == SelectSeq(lookup, LAMBDA e : e[2] = id)
              effect == IF hits = <<>> THEN {} ELSE {EffectFile(Head(hits)[1])}
              timings == GetOr(animation_data, "soundTimings", JList(<<>>))
              fold == SoundFold(ItemsOf(timings),
                                [se |-> gse, sounds |-> {}, named |-> {},
                                 printed |-> FALSE, raised |-> FALSE])
              audio == {AudioFile(n.v) : n \in {m \in fold.sounds : m.t = "str"}}
          IN  /\ gtodo' = gtodo \ {id}
              /\ IF FindRaises(animations_data, id)
                 THEN /\ log' = log \cup {Log("Error processing animation", Dump(id))}
                      /\ UNCHANGED <<gused_files, gse>>
                 ELSE IF IsNone(animation_data)
                 THEN /\ log' = log \cup {Log("Warning: Animation not found", Dump(id))}
                      /\ UNCHANGED <<gused_files, gse>>
                 ELSE IF timings.t \in {"null", "int"} \/ fold.raised
                 THEN /\ log' = log \cup {Log("Error processing animation", Dump(id))}
                      /\ gused_files' = gused_files \cup effect
                      /\ gse' = IF timings.t \in {"null", "int"} THEN gse ELSE fold.se
                 ELSE IF \A n \in fold.sounds : n.t = "str"
                 THEN /\ log' = log
                      /\ gused_files' = gused_files \cup effect \cup audio
                      /\ gse' = fold.se
                 ELSE /\ log' = log \cup {Log("Error processing animation", Dump(id))}
                      /\ gused_files' \in {gused_files \cup effect \cup done :
                                             done \in SUBSET audio}
                      /\ gse' = fold.se
    /\ UNCHANGED <<inputVars, pc, runs, globalVars, localVars, result, results, gpc,
                   gfiles, gcode_files, ganimations, gresult, pngVars, delVars, cacheVars, matchVars, guiVars, stageVars>>

\* the images named by the text of the used containers
GemContainers ==
    /\ gpc = "animations"
    /\ gtodo = {}
    /\ LET effects == {e \in gused_files : EndsWith(e, <<DOT, "efkefc">>)}
       IN  /\ gused_files' =
                 gused_files
                 \cup {c \in Range(gfiles) :
                         /\ EndsWith(c, <<DOT, "png">>)
                         /\ \E e \in effects :
                               Exists(e) /\ GemSearch(get_content_from_file(e), e, c)}
           /\ log' = log \cup {Log("Error reading", e) : e \in {x \in effects : ~Exists(x)}}
    /\ gpc' = "return"
    /\ UNCHANGED <<inputVars, pc, runs, globalVars, localVars, result, results, gfiles,
                   gcode_files, ganimations, gse, gtodo, gresult, pngVars, delVars, cacheVars, matchVars, guiVars, stageVars>>

\* unused_files = [file for file in files if file not in used_files]
\* files.sort(); return unused_files
GemReturn ==
    /\ gpc = "return"
    /\ gresult' = <<SelectSeq(gfiles, LAMBDA f : f \notin gused_files)>>
    /\ gfiles' = SortedSeq(Range(gfiles))
    /\ gpc' = "done"
    /\ UNCHANGED <<inputVars, mainVars, gcode_files, gused_files, ganimations, gse,
                   gtodo, pngVars, delVars, cacheVars, matchVars, guiVars, stageVars>>

GemNext ==
    \/ GemStart
    \/ GemCollect
    \/ GemTilesets
    \/ GemSweep
    \/ GemAnimStep
    \/ GemContainers
    \/ GemReturn

GemSpec == Init /\ [][GemNext]_vars

-----------------------------------------------------------------------------
(* extract_png_filenames on the bytes of a container.  A byte is a number in   *)
(* 0..255, a string is the sequence of its character codes.  (The finder above *)
(* holds a container as the printable runs this function finds in it.)         *)

\* the {4,} of both regular expressions
MinRun == 4

\* a character class that starts at '0' instead of ' '
IsPrintableFromZero(b) == b >= 48 /\ b <= 126

\* [ -~] and [\x20-\x7E]
IsPrintable(b) == b >= 32 /\ b <= 126

\* re.findall(rb'[ -~]{4,}', bytes): the maximal printable runs of four or more
AsciiRuns(bytes) ==
    {SubSeq(bytes, ij[1], ij[2]) :
        ij \in {ab \in (1..Len(bytes)) \X (1..Len(bytes)) :
                  /\ ab[2] - ab[1] + 1 >= MinRun
                  /\ \A m \in ab[1]..ab[2] : IsPrintable(bytes[m])
                  /\ (ab[1] = 1 \/ ~IsPrintable(bytes[ab[1] - 1]))
                  /\ (ab[2] = Len(bytes) \/ ~IsPrintable(bytes[ab[2] + 1]))}}

RECURSIVE PairsAt(_, _)
\* how many (printable, 0x00) pairs follow each other from position i
PairsAt(bytes, i) ==
    IF i + 1 <= Len(bytes) /\ IsPrintable(bytes[i]) /\ bytes[i + 1] = 0
    THEN 1 + PairsAt(bytes, i + 2)
    ELSE 0

RECURSIVE Utf16Runs(_, _)
\* re.findall(rb'(?:[\x20-\x7E]\x00){4,}', bytes) scanning from position i,
\* each match decoded as utf-16le
Utf16Runs(bytes, i) ==
    IF i > Len(bytes) THEN {}
    ELSE LET k == PairsAt(bytes, i)
         IN  IF k >= MinRun
             THEN {[m \in 1..k |-> bytes[i + 2 * (m - 1)]]} \cup Utf16Runs(bytes, i + 2 * k)
             ELSE Utf16Runs(bytes, i + 1)

\* s.lower() on character codes
LowerCodes(s) == [i \in 1..Len(s) |-> IF s[i] >= 65 /\ s[i] <= 90 THEN s[i] + 32 ELSE s[i]]

\* the character codes of ".png"
DotPng == <<46, 112, 110, 103>>

RECURSIVE SortedCodes(_)
\* sorted(S) for a set S of strings given by their character codes
SortedCodes(S) ==
    IF S = {} THEN <<>>
    ELSE LET m == CHOOSE x \in S : \A y \in S : ~LexLess(y, x)
         IN <<m>> \o SortedCodes(S \ {m})

\* the list extract_png_filenames returns for the bytes
ExtractPng(bytes) ==
    SelectSeq(SortedCodes(AsciiRuns(bytes) \cup Utf16Runs(bytes, 1)),
              LAMBDA s : EndsWith(LowerCodes(s), DotPng))

\* the longest noise placed before or after the name
MaxNoise == 3

\* the bytes noise is made of: a letter, the zero byte, a control byte
NoiseBytes == {97, 0, 1}

\* the ASCII bytes of 'Spark.png'
SparkPng == <<83, 112, 97, 114, 107, 46, 112, 110, 103>>

\* the bytes of '.png' as UTF-16LE text
WidePng == <<46, 0, 112, 0, 110, 0, 103, 0>>

\* the noise before the name, and after it
NoiseChunks ==
    UNION {[1..n -> NoiseBytes] : n \in 0..MaxNoise} \cup {WidePng}

PngInit ==
    /\ directory = <<"C:", SL, "Games", SL, "Proj">>
    /\ fs = [p \in {} |-> Blob]
    /\ MainIdle
    /\ GemIdle
    /\ \E pre \in NoiseChunks, post \in NoiseChunks : data = pre \o SparkPng \o post
    /\ png_files = <<>>
    /\ DelIdle
    /\ CacheIdle
    /\ MatchIdle
    /\ GuiIdle
    /\ StageIdle

\* binary_data = f.read(); ...; return png_files
Extract ==
    /\ png_files = <<>>
    /\ png_files' = <<ExtractPng(data)>>
    /\ UNCHANGED <<inputVars, mainVars, gemVars, data, delVars, cacheVars, matchVars, guiVars, stageVars>>

PngNext == Extract

PngSpec == PngInit /\ [][PngNext]_vars

-----------------------------------------------------------------------------
(* Deletion of the files a run left unused.  prompt_delete starts a thread on *)
(* delete_unused_files.  os.remove fails on a path that does not exist and    *)
(* can fail on any other path (a file in use, a missing permission).          *)

\* how many paths the confirmed list holds at most
MaxDelete == 3

\* the candidates a run can leave unused: no root file, no code file
Deletable == {p \in DOMAIN fs : Dirname(p) # directory /\ ~IsCode(p)}

\* the non-empty sets of candidates the Delete button is shown for
DeleteSets == {S \in SUBSET Deletable : S # {} /\ Cardinality(S) <= MaxDelete}

DeleteInit ==
    /\ directory = <<"C:", SL, "Games", SL, "Proj">>
    /\ \E rel \in {AnimationProject(1, "Ice", <<BellTiming>>),
                   LocaleProject(<<>>, <<>>)} :
          fs = MkFs(directory, rel)
    /\ MainIdle
    /\ GemIdle
    /\ PngIdle
    /\ DelIdle
    /\ CacheIdle
    /\ MatchIdle
    /\ GuiIdle
    /\ StageIdle

scheduled(f, count) == [f |-> f, count |-> count]

\* prompt_delete confirmed: Thread(target=delete_unused_files, args=[unused_files]),
\* the worker iterates the global set in some order
PromptDelete ==
    /\ dpc = "idle"
    /\ \E files \in DeleteSets : \E order \in Perms(files) :
          /\ dgiven' = order
          /\ dtodo' = order
    /\ di' = 0
    /\ dpc' = "deleting"
    /\ log' = log \cup {Log("Deleting unused files", <<>>)}
    /\ UNCHANGED <<inputVars, pc, runs, globalVars, localVars, result, results,
                   gemVars, pngVars, cacheVars, matchVars, guiVars, stageVars, gdtodo, attempted, gattempted, after>>

\* one pass of the loop of delete_unused_files
DeleteStep ==
    /\ dpc = "deleting"
    /\ dtodo # <<>>
    /\ LET f == Head(dtodo)
       IN  /\ attempted' = attempted \cup {f}
           /\ dtodo' = Tail(dtodo)
           /\ di' = di + 1
           /\ \E removed \in {b \in BOOLEAN : b => Exists(f)} :
                 IF removed
                 THEN /\ fs' = [p \in DOMAIN fs \ {f} |-> fs[p]]
                      /\ after' = Append(after, scheduled("update_delete_progress", di + 1))
                      /\ log' = log
                 ELSE /\ log' = log \cup {Log("Error deleting", f)}
                      /\ UNCHANGED <<fs, after>>
    /\ UNCHANGED <<directory, pc, runs, globalVars, localVars, result, results,
                   gemVars, pngVars, cacheVars, matchVars, guiVars, stageVars, dpc, dgiven, gdtodo, gattempted>>

\* app.after(100, deletion_complete)
DeleteDone ==
    /\ dpc = "deleting"
    /\ dtodo = <<>>
    /\ after' = Append(after, scheduled("deletion_complete", 0))
    /\ dpc' = "ended"
    /\ UNCHANGED <<inputVars, mainVars, gemVars, pngVars, cacheVars, matchVars, guiVars, stageVars, dgiven, dtodo, gdtodo, di,
                   attempted, gattempted>>

\* the revision's prompt_delete: the lines of the text box are the list, and
\* Thread(target=delete_unused_files, args=(unused_files)) hands the list over
\* as the argument tuple.  A list of one path binds the parameter to that
\* string; any other length raises TypeError in the thread.
GemPromptDelete ==
    /\ dpc = "idle"
    /\ \E files \in DeleteSets : \E order \in Perms(files) :
          /\ dgiven' = order
          /\ IF Len(order) = 1
             THEN gdtodo' = Chars(order[1]) /\ dpc' = "gdeleting"
             ELSE gdtodo' = <<>> /\ dpc' = "raised"
    /\ log' = log \cup {Log("Deleting unused files", <<>>)}
    /\ UNCHANGED <<inputVars, pc, runs, globalVars, localVars, result, results,
                   gemVars, pngVars, cacheVars, matchVars, guiVars, stageVars, dtodo, di, attempted, gattempted, after>>

\* one pass of the revision's loop: `file` is one character of the path, which
\* names no file of the project
GemDeleteStep ==
    /\ dpc = "gdeleting"
    /\ gdtodo # <<>>
    /\ gattempted' = gattempted \cup {<<Head(gdtodo)>>}
    /\ gdtodo' = Tail(gdtodo)
    /\ log' = log \cup {Log("Error deleting", <<ToString(Head(gdtodo))>>)}
    /\ UNCHANGED <<inputVars, pc, runs, globalVars, localVars, result, results,
                   gemVars, pngVars, cacheVars, matchVars, guiVars, stageVars, dpc, dgiven, dtodo, di, attempted, after>>

\* app.after(100, deletion_complete) of the revision
GemDeleteDone ==
    /\ dpc = "gdeleting"
    /\ gdtodo = <<>>
    /\ after' = Append(after, scheduled("deletion_complete", 0))
    /\ dpc' = "ended"
    /\ UNCHANGED <<inputVars, mainVars, gemVars, pngVars, cacheVars, matchVars, guiVars, stageVars, dgiven, dtodo, gdtodo, di,
                   attempted, gattempted>>

DeleteNext ==
    \/ PromptDelete
    \/ DeleteStep
    \/ DeleteDone
    \/ GemPromptDelete
    \/ GemDeleteStep
    \/ GemDeleteDone

DeleteSpec == DeleteInit /\ [][DeleteNext]_vars

-----------------------------------------------------------------------------
(* load_cached_json called in any sequence, on files that change between the *)
(* calls: the cache is a module global, no run clears it, and the project on  *)
(* disk is edited between two runs.                                           *)

\* how many calls are made
MaxCalls == 3

\* the paths asked for: two databases on disk, one that is missing
CachePaths ==
    {AnimationsJson, TilesetsJson, Join(DataDir, <<"Skills", DOT, "json">>)}

\* the file at p after an edit: a loadable file becomes malformed, a malformed
\* or missing one becomes a loadable list
Edited(p) ==
    IF JsonLoads(p) THEN TextFile(<<LC>>) ELSE JsonFile(JList(<<JInt(2)>>))

CacheInit ==
    /\ directory = <<"C:", SL, "Games", SL, "Proj">>
    /\ fs = MkFs(directory, AnimationProject(1, "Fire", <<BellTiming>>))
    /\ MainIdle
    /\ GemIdle
    /\ PngIdle
    /\ DelIdle
    /\ CacheIdle
    /\ MatchIdle
    /\ GuiIdle
    /\ StageIdle

\* `if file_path not in cached_json`: the call opens the file
Opens(cache, p) == p \notin DOMAIN cache

\* one call of load_cached_json(p)
CallLoad ==
    /\ calls < MaxCalls
    /\ \E p \in CachePaths :
          /\ asked' = Append(asked, [path |-> p, loads |-> JsonLoads(p)])
          /\ cached_json' = load_cached_json(cached_json, p)
          /\ returned' = cached_json'[p]
          /\ log' = log \cup LoadLog(cached_json, p)
          /\ opens' = [q \in DOMAIN opens \cup {p} |->
                          (IF q \in DOMAIN opens THEN opens[q] ELSE 0)
                          + (IF q = p /\ Opens(cached_json, p) THEN 1 ELSE 0)]
    /\ calls' = calls + 1
    /\ UNCHANGED <<inputVars, pc, runs, used_files, unused_files, code_files,
                   animations, localVars, result, results, gemVars, pngVars, delVars,
                   matchVars, guiVars, stageVars>>

\* the user edits, creates or repairs a file of the project
EditFile ==
    /\ \E p \in CachePaths : fs' = [q \in DOMAIN fs \cup {p} |-> IF q = p THEN Edited(p) ELSE fs[q]]
    /\ UNCHANGED <<directory, mainVars, gemVars, pngVars, delVars, cacheVars, matchVars, guiVars, stageVars>>

CacheNext ==
    \/ CallLoad
    \/ EditFile

CacheSpec == CacheInit /\ [][CacheNext]_vars

-----------------------------------------------------------------------------
(* search_content_for_file of both files, called on its own with a content of *)
(* a few atoms, a code file as the source and a target.                       *)

\* the longest content searched
MaxContent == 3

\* what the content is made of
ContentAtoms == {Q, APOS, SL, BS, DOT, "Orphan", "png"}

Contents == UNION {[1..n -> ContentAtoms] : n \in 0..MaxContent}

\* the source whose content is searched
MatchSource == <<"C:", SL, "Games", SL, "Proj", SL, "js", SL, "plugins", SL, "Foo", DOT, "js">>

\* the targets searched for, with and without an extension
Targets ==
    {<<"C:", SL, "Games", SL, "Proj", SL, "img", SL, "Orphan", DOT, "png">>,
     <<"C:", SL, "Games", SL, "Proj", SL, "img", SL, "Orphan">>}

MatchInit ==
    /\ directory = <<"C:", SL, "Games", SL, "Proj">>
    /\ fs = [p \in {} |-> Blob]
    /\ MainIdle
    /\ GemIdle
    /\ PngIdle
    /\ DelIdle
    /\ CacheIdle
    /\ GuiIdle
    /\ StageIdle
    /\ haystack \in Contents
    /\ wanted \in Targets
    /\ verdict = <<>>
    /\ gverdict = <<>>

\* search_content_for_file(content, source_file, target_file) of src/Unused_assets.py
Search ==
    /\ verdict = <<>>
    /\ verdict' = <<search_content_for_file(haystack, MatchSource, wanted)>>
    /\ UNCHANGED <<inputVars, mainVars, gemVars, pngVars, delVars, cacheVars, haystack,
                   wanted, gverdict, guiVars, stageVars>>

\* search_content_for_file(content, source_file, target_file) of the revision
SearchGem ==
    /\ gverdict = <<>>
    /\ gverdict' = <<GemSearch(haystack, MatchSource, wanted)>>
    /\ UNCHANGED <<inputVars, mainVars, gemVars, pngVars, delVars, cacheVars, haystack,
                   wanted, verdict, guiVars, stageVars>>

MatchNext ==
    \/ Search
    \/ SearchGem

MatchSpec == MatchInit /\ [][MatchNext]_vars

-----------------------------------------------------------------------------
(* The window of src/Unused_assets.py: the buttons "Find Unused Files" and       *)
(* "Delete Unused Files" with the threads they start.  No button is disabled     *)
(* while a thread runs.  Every worker reads the global names used_files,         *)
(* unused_files and code_files anew at each access, so it works on the sets      *)
(* bound when it accesses them; the deleting thread holds the set object it      *)
(* was given.  The projects have no database files, no effect containers and     *)
(* no animation ids: the lookup, the id collection and the tileset, animation    *)
(* and container phases of a worker leave the global sets as they are, and a     *)
(* worker is followed through its seeding walk, its code files, its sweep and    *)
(* its return.  The worker of run r is thread r.                                 *)

\* projects without database files
FlatProjects ==
    {LocaleProject(<<APOS, "en", DOT, "pak", APOS>>, <<>>),
     LocaleProject(<<>>, <<>>),
     ExclusionProject}

GuiInit ==
    /\ \E root \in ProjectRoots, rel \in FlatProjects :
          /\ directory = root
          /\ fs = MkFs(root, rel)
    /\ MainIdle
    /\ GemIdle
    /\ PngIdle
    /\ DelIdle
    /\ CacheIdle
    /\ MatchIdle
    /\ GuiIdle
    /\ StageIdle

\* the worker of run r is between its start and its return
Running(r) == wpc[r] \in {"seed", "code", "sweep"}

\* run_finder: rebinds the global sets and starts a worker; the set object a
\* deleting thread iterates stays as it is from then on
GuiRunFinder ==
    /\ runs < MaxRuns
    /\ deleter.pc # "ended"
    /\ runs' = runs + 1
    /\ unused_files' = {}
    /\ used_files' = {}
    /\ code_files' = {}
    /\ animations' = {}
    /\ wpc' = [wpc EXCEPT ![runs + 1] = "seed"]
    /\ deleter' = IF deleter.pc = "deleting" /\ deleter.live
                  THEN [deleter EXCEPT !.live = FALSE, !.files = unused_files]
                  ELSE deleter
    /\ UNCHANGED <<inputVars, pc, cached_json, localVars, log, result, results,
                   gemVars, pngVars, delVars, cacheVars, matchVars, stageVars, wtodo, packed,
                   wcount, called>>

\* the seeding walk of worker r, on the sets bound now
WorkerSeed(r) ==
    /\ wpc[r] = "seed"
    /\ LET walked == UNION {FilesIn(d) : d \in SeedDirs}
           root == {p \in walked : Dirname(p) = directory}
           rest == {p \in walked \ root : ~EndsWithWord(p, "rmmzsave")}
       IN  /\ used_files' = used_files \cup root
           /\ unused_files' = unused_files \cup rest
    /\ wpc' = [wpc EXCEPT ![r] = "code"]
    /\ UNCHANGED <<inputVars, pc, runs, code_files, animations, cached_json, localVars,
                   log, result, results, gemVars, pngVars, delVars, cacheVars,
                   matchVars, stageVars, wtodo, packed, deleter, wcount, called>>

\* the plugin sources and the js/json below data become code files of worker r;
\* its sweep then iterates a copy of code_files
WorkerCode(r) ==
    /\ wpc[r] = "code"
    /\ IF PluginsRaise
       THEN /\ wpc' = [wpc EXCEPT ![r] = "ended"]
            /\ UNCHANGED <<used_files, unused_files, code_files, wtodo, called>>
       ELSE LET plugin_files == {PluginFile(n) : n \in get_used_plugins}
                found == {p \in DataFiles : IsCode(p)}
            IN  /\ code_files' = code_files \cup plugin_files \cup found
                /\ used_files' = used_files \cup plugin_files \cup found
                /\ unused_files' = Discard(unused_files, plugin_files \cup found)
                /\ wtodo' = [wtodo EXCEPT ![r] = code_files \cup plugin_files \cup found]
                /\ called' = called \cup {<<wcount[r], Cardinality(code_files')>>}
                /\ wpc' = [wpc EXCEPT ![r] = "sweep"]
    /\ UNCHANGED <<inputVars, pc, runs, animations, cached_json, localVars, log,
                   result, results, gemVars, pngVars, delVars, cacheVars, matchVars, stageVars,
                   packed, deleter, wcount>>

\* one pass of the sweep of worker r, with the progress callback that ends
\* it; update_progress divides by the code count and raises on 0
WorkerSweep(r) ==
    /\ wpc[r] = "sweep"
    /\ wcount' = [wcount EXCEPT ![r] = @ + 1]
    /\ called' = called \cup {<<wcount[r] + 1, Cardinality(code_files)>>}
    /\ wpc' = [wpc EXCEPT ![r] = IF code_files = {} THEN "ended" ELSE "sweep"]
    /\ \E f \in wtodo[r] :
          /\ wtodo' = [wtodo EXCEPT ![r] = @ \ {f}]
          /\ IF Exists(f)
             THEN LET content == get_content_from_file(f)
                      matched == {c \in unused_files : search_content_for_file(content, f, c)}
                      moved == matched \cup InfoFiles(matched)
                  IN  /\ used_files' = used_files \cup moved
                      /\ unused_files' = Discard(unused_files, moved)
                      /\ log' = log
             ELSE /\ log' = log \cup {Log("Error reading", f)}
                  /\ UNCHANGED <<used_files, unused_files>>
    /\ UNCHANGED <<inputVars, pc, runs, code_files, animations, cached_json, localVars,
                   result, results, gemVars, pngVars, delVars, cacheVars, matchVars, stageVars,
                   packed, deleter>>

\* the progress callbacks after the sweep, then worker r returns
\* list(sorted(unused_files)); find_and_display_unused_files shows the delete
\* button when the list is not empty
WorkerReturn(r) ==
    /\ wpc[r] = "sweep"
    /\ wtodo[r] = {}
    /\ called' = called \cup {<<wcount[r], Cardinality(code_files)>>}
    /\ IF code_files = {}
       THEN UNCHANGED <<results, packed>>
       ELSE /\ results' = Append(results, SortedSeq(unused_files))
            /\ packed' = (packed \/ unused_files # {})
    /\ wpc' = [wpc EXCEPT ![r] = "ended"]
    /\ UNCHANGED <<inputVars, pc, runs, globalVars, localVars, log, result, gemVars,
                   pngVars, delVars, cacheVars, matchVars, stageVars, wtodo, deleter,
                   wcount>>

\* prompt_delete, answered with yes: the thread gets the set bound to the
\* global name unused_files now
GuiPromptDelete ==
    /\ packed
    /\ deleter.pc = "none"
    /\ deleter' = [pc |-> "deleting", live |-> TRUE, files |-> {},
                   size |-> Cardinality(unused_files), seen |-> {}]
    /\ UNCHANGED <<inputVars, mainVars, gemVars, pngVars, delVars, cacheVars, matchVars, stageVars,
                   wpc, wtodo, packed, wcount, called>>

\* the set the deleting thread iterates
Held == IF deleter.live THEN unused_files ELSE deleter.files

\* one pass of the loop of delete_unused_files: the iterator raises when the
\* set has changed its size, else it yields a member not yielded yet
DeleteFile ==
    /\ deleter.pc = "deleting"
    /\ IF Cardinality(Held) # deleter.size
       THEN /\ deleter' = [deleter EXCEPT !.pc = "raised"]
            /\ UNCHANGED <<fs, log>>
       ELSE IF Held \ deleter.seen = {}
       THEN /\ deleter' = [deleter EXCEPT !.pc = "ended"]
            /\ UNCHANGED <<fs, log>>
       ELSE \E f \in Held \ deleter.seen :
               /\ deleter' = [deleter EXCEPT !.seen = @ \cup {f}]
               /\ IF Exists(f)
                  THEN /\ fs' = [p \in DOMAIN fs \ {f} |-> fs[p]]
                       /\ log' = log
                  ELSE /\ fs' = fs
                       /\ log' = log \cup {Log("Error deleting", f)}
    /\ UNCHANGED <<directory, pc, runs, globalVars, localVars, result, results,
                   gemVars, pngVars, delVars, cacheVars, matchVars, stageVars, wpc, wtodo, packed,
                   wcount, called>>

GuiNext ==
    \/ GuiRunFinder
    \/ \E r \in 1..MaxRuns : WorkerSeed(r)
    \/ \E r \in 1..MaxRuns : WorkerCode(r)
    \/ \E r \in 1..MaxRuns : WorkerSweep(r)
    \/ \E r \in 1..MaxRuns : WorkerReturn(r)
    \/ GuiPromptDelete
    \/ DeleteFile

GuiSpec == GuiInit /\ [][GuiNext]_vars

-----------------------------------------------------------------------------
(* src/Stage_Project.py: start_process and copy_game_to_staging.  A directory   *)
(* exists when a file lies below it.                                             *)

\* what the user can enter as repository: nothing, or a project on disk
RepoPaths ==
    {NoPath,
     <<"C:", SL, "Games", SL, "Proj">>,
     <<"C:", SL, "Proj", SL, "Proj">>}

\* what the user can enter as staging directory
StagingBases ==
    {NoPath,
     <<"C:">>,
     <<"C:", SL, "Games">>,
     <<"C:", SL, "Stage">>}

\* the disk holds the project at the repository path, and with old an earlier
\* copy of it below C:/Stage
StageDisk(repo, old) ==
    (IF repo = NoPath THEN [p \in {} |-> Blob] ELSE MkFs(repo, ExclusionProject))
    @@ (IF old THEN MkFs(<<"C:", SL, "Stage", SL, "Proj">>, ExclusionProject)
        ELSE [p \in {} |-> Blob])

StageInit ==
    /\ \E repo \in RepoPaths, base \in StagingBases, old \in BOOLEAN :
          /\ repo_path = repo
          /\ staging_base = base
          /\ directory = repo
          /\ fs = StageDisk(repo, old)
    /\ staging_path = NoPath
    /\ spc = "idle"
    /\ rmtree = NoPath
    /\ scopy = {}
    /\ MainIdle
    /\ GemIdle
    /\ PngIdle
    /\ DelIdle
    /\ CacheIdle
    /\ MatchIdle
    /\ GuiIdle

\* os.path.exists(d) for a directory d
DirExists(d) == \E p \in DOMAIN fs : StartsWith(p, d \o <<SL>>)

\* skip_dirs = ['.git', '.vs', 'DatabaseCleanUpTool', 'save']
skip_dirs == {<<DOT, "git">>, <<DOT, "vs">>, <<"DatabaseCleanUpTool">>, <<"save">>}

\* os.path.relpath(root, repo_path).split(os.sep) for the directory of file p
RelativeParts(p) ==
    IF Dirname(p) = repo_path THEN {<<DOT>>}
    ELSE PathParts(SubSeq(Dirname(p), Len(repo_path) + 2, Len(Dirname(p))))

\* the files the walk over repo_path copies
Copied ==
    {p \in DOMAIN fs :
        /\ StartsWith(p, repo_path \o <<SL>>)
        /\ RelativeParts(p) \cap skip_dirs = {}}

\* start_process: staging_path = f"{staging_base}/{staging_dir}"
StartProcess ==
    /\ spc = "idle"
    /\ IF repo_path = NoPath
       THEN spc' = "rejected" /\ staging_path' = staging_path
       ELSE /\ staging_path' = staging_base \o <<SL>> \o Basename(repo_path)
            /\ spc' = "clear"
    /\ UNCHANGED <<inputVars, mainVars, gemVars, pngVars, delVars, cacheVars, matchVars,
                   guiVars, repo_path, staging_base, rmtree, scopy>>

\* if os.path.exists(staging_path): shutil.rmtree(staging_path)
ClearStaging ==
    /\ spc = "clear"
    /\ IF DirExists(staging_path)
       THEN /\ fs' = [p \in {q \in DOMAIN fs : ~StartsWith(q, staging_path \o <<SL>>)} |-> fs[p]]
            /\ rmtree' = staging_path
       ELSE UNCHANGED <<fs, rmtree>>
    /\ spc' = "walk"
    /\ UNCHANGED <<directory, mainVars, gemVars, pngVars, delVars, cacheVars, matchVars,
                   guiVars, repo_path, staging_base, staging_path, scopy>>

\* for root, _, files in os.walk(repo_path)
WalkRepo ==
    /\ spc = "walk"
    /\ scopy' = Copied
    /\ spc' = "copy"
    /\ UNCHANGED <<inputVars, mainVars, gemVars, pngVars, delVars, cacheVars, matchVars,
                   guiVars, repo_path, staging_base, staging_path, rmtree>>

\* copy_with_progress(src_path, dst_path) for one file of the walk
CopyFile ==
    /\ spc = "copy"
    /\ \E src \in scopy :
          LET dst == staging_path \o SubSeq(src, Len(repo_path) + 1, Len(src))
          IN  /\ fs' = [p \in DOMAIN fs \cup {dst} |-> IF p = dst THEN fs[src] ELSE fs[p]]
              /\ scopy' = scopy \ {src}
    /\ UNCHANGED <<directory, mainVars, gemVars, pngVars, delVars, cacheVars, matchVars,
                   guiVars, repo_path, staging_base, staging_path, spc, rmtree>>

\* print(f"Game copied to staging: {staging_path}")
StageDone ==
    /\ spc = "copy"
    /\ scopy = {}
    /\ spc' = "done"
    /\ UNCHANGED <<inputVars, mainVars, gemVars, pngVars, delVars, cacheVars, matchVars,
                   guiVars, repo_path, staging_base, staging_path, rmtree, scopy>>

StageNext ==
    \/ StartProcess
    \/ ClearStaging
    \/ WalkRepo
    \/ CopyFile
    \/ StageDone

StageSpec == StageInit /\ [][StageNext]_vars

-----------------------------------------------------------------------------
(* Properties of find_unused_files (src/Unused_assets.py) *)

\* the positions of a run after Seed
AfterSeed ==
    {"plugins", "data", "effekseer", "collect", "tilesets", "sweep", "animations",
     "containers", "done"}

AfterTilesets ==
    \/ pc \in {"animations", "containers", "done"}
    \/ pc = "sweep"

AfterSweep ==
    \/ pc \in {"animations", "containers", "done"}
    \/ pc = "sweep" /\ todo = {}

AfterAnimations ==
    \/ pc \in {"containers", "done"}
    \/ pc = "animations" /\ todo = {}

\* the boundaries between the phases: after Seed, plugin resolution, tileset
\* resolution, the sweep, animation resolution, container image resolution
PhaseBoundary ==
    \/ pc \in {"plugins", "data", "done"}
    \/ pc = "sweep" /\ test_count = 0
    \/ pc \in {"sweep", "animations", "containers"} /\ todo = {}

\* C1: at every phase boundary and in the returned result no path is a member
\* of both used_files and unused_files
C1_NoPathInBoth ==
    /\ PhaseBoundary => used_files \cap unused_files = {}
    /\ pc = "done" => Range(result[1]) \cap used_files = {}

\* C1: a run has returned a list that holds an image a used container names
C1_Witness ==
    /\ pc = "done"
    /\ \E e \in used_files :
          /\ Readable(e)
          /\ \E n \in Range(extract_png_filenames(e)) :
                Join(EffectsDir, n) \in Range(result[1])

\* C2: within a run, from the end of Seed on, no step removes a path from
\* used_files and no step adds a path to unused_files
C2_Monotone ==
    [][(pc \in AfterSeed \ {"done"})
          => (used_files \subseteq used_files' /\ unused_files' \subseteq unused_files)]_vars

\* C2: a run has returned after it moved a candidate that is no code file
C2_Witness ==
    /\ pc = "done"
    /\ unused_files # {}
    /\ \E p \in used_files : Exists(p) /\ Dirname(p) # directory /\ p \notin code_files

\* C3: every file directly in the project root is in used_files once Seed has
\* finished, is never in unused_files, and is not in the returned list
C3_RootFilesUsed ==
    /\ pc \in AfterSeed => FilesIn(directory) \subseteq used_files
    /\ FilesIn(directory) \cap unused_files = {}
    /\ pc = "done" => FilesIn(directory) \cap Range(result[1]) = {}

\* the locale packages the sweep matched in some code file
SweptPaks ==
    {p \in UNION {file_references[f] : f \in code_files \cap DOMAIN file_references} :
        EndsWith(p, <<DOT, "pak">>)}

\* C4: when the sweep has ended, the sidecar p + '.info' of every locale package
\* p the sweep moved to used_files is in used_files and not in unused_files
C4_PakSidecar ==
    AfterSweep =>
        \A p \in SweptPaks :
            /\ p \in used_files
            /\ p \o <<DOT, "info">> \in used_files
            /\ p \o <<DOT, "info">> \notin unused_files

\* C4: the sweep has ended and moved a package whose sidecar is on disk and
\* is referenced by the text of no code file
C4_Witness ==
    /\ AfterSweep
    /\ \E p \in SweptPaks :
          /\ Exists(p \o <<DOT, "info">>)
          /\ p \o <<DOT, "info">> \in used_files
          /\ \A f \in code_files :
                Exists(f) =>
                    ~search_content_for_file(get_content_from_file(f), f,
                                             p \o <<DOT, "info">>)

\* the effect names data/Animations.json records for the id
EffectNamesOf(id) ==
    IF ~JsonLoads(AnimationsJson) THEN {}
    ELSE LET items == ItemsOf(fs[AnimationsJson].doc)
         IN  {Item(items[i], "effectName") :
                 i \in {j \in 1..Len(items) :
                          /\ IsAnimationItem(items[j])
                          /\ Item(items[j], "id") = id}}

\* <directory>/effects/E.efkefc
ContainerOf(E) ==
    directory \o <<SL, "effects", SL>> \o NameText(E) \o <<DOT, "efkefc">>

IsMapRecord(f) ==
    /\ f \in code_files
    /\ EndsWith(f, <<DOT, "json">>)
    /\ WordIn("Map", Basename(f))
    /\ ~WordIn("MapInfo", Basename(f))

\* the names of the tilesets the map record f resolves to
TilesetNamesOf(f) ==
    IF ~(JsonLoads(f) /\ JsonLoads(TilesetsJson)) THEN {}
    ELSE LET T == GetOr(fs[f].doc, "tilesetId", JNull)
             ts == ItemsOf(fs[TilesetsJson].doc)
         IN  UNION {Range(ItemsOf(GetOr(ts[i], "tilesetNames", JList(<<>>)))) :
                      i \in {j \in 1..Len(ts) :
                               /\ ts[j].t = "dict"
                               /\ ~IsNone(T)
                               /\ GetOr(ts[j], "id", JNull) = T}}

\* C6: after tileset resolution the image of every non-empty tileset name a
\* map record resolves to is in used_files and not in unused_files
C6_TilesetImagesUsed ==
    AfterTilesets =>
        \A f \in {g \in code_files : IsMapRecord(g)} :
            \A N \in {n \in TilesetNamesOf(f) : n.t = "str" /\ n.v # <<>>} :
                /\ directory \o <<SL, "img", SL, "tilesets", SL>> \o N.v \o <<DOT, "png">>
                      \in used_files
                /\ directory \o <<SL, "img", SL, "tilesets", SL>> \o N.v \o <<DOT, "png">>
                      \notin unused_files

\* C6: tileset resolution has ended for a project with a map record that
\* resolves to a named tileset
C6_Witness ==
    /\ AfterTilesets
    /\ \E f \in code_files :
          IsMapRecord(f) /\ \E n \in TilesetNamesOf(f) : n.t = "str" /\ n.v # <<>>

\* C7: the path <directory>/img/tilesets/.png is never added to used_files
C7_NoEmptyTilesetPath ==
    directory \o <<SL, "img", SL, "tilesets", SL, DOT, "png">> \notin used_files

\* C7: tileset resolution has ended for a map whose tileset lists the empty name
C7_Witness ==
    /\ AfterTilesets
    /\ \E f \in code_files : IsMapRecord(f) /\ JStr(<<>>) \in TilesetNamesOf(f)

\* C8: two runs on the unmodified directory return the same unused set
C8_SameResultTwice ==
    Len(results) >= 2 => Range(results[1]) = Range(results[2])

\* C8: two runs on the same directory have returned
C8_Witness == Len(results) >= 2

-----------------------------------------------------------------------------
(* Properties of extract_png_filenames *)

\* where the name starts in the bytes: no noise byte is its first letter
NameStart == FirstIndexOf(data, SparkPng[1])

\* the noise before the name
NoiseBefore == SubSeq(data, 1, NameStart - 1)

\* the noise after the name
NoiseAfter == SubSeq(data, NameStart + Len(SparkPng), Len(data))

\* every run of printable bytes in xs is shorter than the run threshold
RunsShort(xs) ==
    \A i \in 1..Len(xs) :
        i + MinRun - 1 <= Len(xs) => \E m \in i..(i + MinRun - 1) : ~IsPrintable(xs[m])

\* a byte that is not printable (or an end of the data) on both sides of the name
NameDelimited ==
    /\ NoiseBefore = <<>> \/ ~IsPrintable(NoiseBefore[Len(NoiseBefore)])
    /\ NoiseAfter = <<>> \/ ~IsPrintable(NoiseAfter[1])

\* no zero-interleaved run of the bytes spells a name that ends in .png
NoWidePng ==
    \A s \in Utf16Runs(data, 1) : ~EndsWith(LowerCodes(s), DotPng)

\* C9 as stated: with noise runs shorter than four bytes anywhere around the
\* name, the extractor returns exactly ['Spark.png']
C9_AnyShortNoise ==
    (png_files # <<>> /\ RunsShort(NoiseBefore) /\ RunsShort(NoiseAfter))
        => png_files[1] = <<SparkPng>>

\* C9: with noise runs shorter than four bytes, a byte that is not printable
\* (or an end of the data) on both sides of the name, and no zero-interleaved
\* run that spells a .png name, the extractor returns exactly ['Spark.png']
C9_DelimitedShortNoise ==
    (/\ png_files # <<>>
     /\ RunsShort(NoiseBefore)
     /\ RunsShort(NoiseAfter)
     /\ NameDelimited
     /\ NoWidePng)
        => png_files[1] = <<SparkPng>>

\* C9: the extractor has returned the name from bytes that hold printable
\* noise on both sides of it
C9_Witness ==
    /\ png_files = << <<SparkPng>> >>
    /\ \E i \in 1..Len(NoiseBefore) : IsPrintable(NoiseBefore[i])
    /\ \E i \in 1..Len(NoiseAfter) : IsPrintable(NoiseAfter[i])
    /\ NameDelimited

-----------------------------------------------------------------------------
(* Properties of the returned list, for both revisions *)

\* the sequence holds no path twice
NoRepeat(xs) == \A i, j \in 1..Len(xs) : xs[i] = xs[j] => i = j

\* C10: the returned sequence is in ascending lexicographic order and holds
\* each unused path exactly once
C10_ResultSorted ==
    /\ pc = "done" =>
          /\ IsSorted(result[1])
          /\ NoRepeat(result[1])
          /\ Range(result[1]) = unused_files
    /\ gpc = "done" =>
          /\ IsSorted(gresult[1])
          /\ NoRepeat(gresult[1])
          /\ Range(gresult[1]) = Range(gfiles) \ gused_files

\* C10: the earlier revision has returned two or more unused paths
C10_Witness == gpc = "done" /\ Len(gresult[1]) >= 2

-----------------------------------------------------------------------------
(* Properties of the deletion *)

\* os.remove was called with the path p
RemovalAttempted(p) == p \in attempted \/ Chars(p) \in gattempted

\* C11: when the deleting thread is over, os.remove was attempted on every path
\* of the confirmed list, every failure is in the log, and deletion_complete
\* is the last callback scheduled.
C11_EveryPathAttempted ==
    dpc \in {"ended", "raised"}
       => /\ \A p \in Range(dgiven) : RemovalAttempted(p)
          /\ \A p \in Range(dgiven) : Exists(p) => Log("Error deleting", p) \in log
          /\ after # <<>>
          /\ after[Len(after)].f = "deletion_complete"

\* the revision's thread is over, and a confirmed path was never handed to os.remove
C11_Witness ==
    /\ dpc \in {"ended", "raised"}
    /\ attempted = {}
    /\ \E p \in Range(dgiven) : ~RemovalAttempted(p)

-----------------------------------------------------------------------------
(* Properties of load_cached_json *)

\* C12: no path is opened more than once and a call returns what the cache
\* holds for its path; the first call for a path stores what the file holds
\* then (None when it cannot be loaded), and whatever is stored for a path
\* stays stored unchanged, a None included, however the file changes later.
C12_LoadedOnce ==
    /\ [](/\ \A p \in DOMAIN opens : opens[p] <= 1
          /\ calls > 0 => (asked[calls].path \in DOMAIN cached_json
                           /\ returned = cached_json[asked[calls].path]))
    /\ [][/\ \A p \in DOMAIN cached_json :
                p \in DOMAIN cached_json' /\ cached_json'[p] = cached_json[p]
          /\ \A p \in DOMAIN cached_json' \ DOMAIN cached_json :
                cached_json'[p] = (IF JsonLoads(p) THEN fs[p].doc ELSE JNull)]_vars

\* a path was asked for again after its file was repaired, and the call
\* returned the None of the failed first load without opening the file
C12_Witness ==
    /\ calls >= 2
    /\ asked[calls].path = asked[calls - 1].path
    /\ ~asked[calls - 1].loads
    /\ asked[calls].loads
    /\ opens[asked[calls].path] = 1
    /\ IsNone(returned)

-----------------------------------------------------------------------------
(* Properties of get_used_plugins *)

\* js/plugins.js exists and cannot be read as a list of named descriptors
ManifestUnparsable ==
    /\ Exists(PluginsFile)
    /\ \/ PluginsError(PluginsFile) # ""
       \/ \E i \in 1..Len(fs[PluginsFile].doc.v) : ~HasName(fs[PluginsFile].doc.v[i])

\* the code files below js/plugins
PluginSources == {f \in code_files : StartsWith(f, Join(JsDir, <<"plugins", SL>>))}

\* C13: once a run is past plugin resolution on a manifest that cannot be
\* parsed, the run was not aborted, the failure is in the log and no plugin
\* source became a code file.
C13_ManifestFailureRecovered ==
    (ManifestUnparsable /\ pc \notin {"idle", "lookup", "seed", "plugins"})
       => /\ pc # "aborted"
          /\ Log("Error loading plugins.js", PluginsFile) \in log
          /\ PluginSources = {}

\* a run has met a descriptor without a name
C13_Witness ==
    /\ Exists(PluginsFile)
    /\ PluginsError(PluginsFile) = ""
    /\ \E i \in 1..Len(fs[PluginsFile].doc.v) : ~HasName(fs[PluginsFile].doc.v[i])
    /\ pc \notin {"idle", "lookup", "seed", "plugins"}

-----------------------------------------------------------------------------
(* Properties of the recovery from files that cannot be loaded *)

\* C14: a run on a project whose data/Animations.json exists and is no JSON,
\* and whose plugin list is sound, is never aborted.
C14_BadDataNeverAborts ==
    (Exists(AnimationsJson) /\ ~JsonLoads(AnimationsJson) /\ ~PluginsRaise)
       => pc # "aborted"

\* the lookup has met a database that is no JSON: the load was logged and
\* stored as None
C14_Witness ==
    /\ Exists(AnimationsJson)
    /\ ~JsonLoads(AnimationsJson)
    /\ AnimationsJson \in DOMAIN cached_json
    /\ IsNone(cached_json[AnimationsJson])
    /\ Log("Error loading", AnimationsJson) \in log
    /\ pc \notin {"idle", "lookup"}

-----------------------------------------------------------------------------
(* Properties of plugin resolution *)

\* the names of the descriptors of a plugin list that parses
DescriptorNames ==
    IF Exists(PluginsFile) /\ fs[PluginsFile].kind = "plugins"
    THEN {NameText(Item(d, "name")) :
            d \in {x \in Range(fs[PluginsFile].doc.v) : x.t = "dict" /\ HasKey(x, "name")}}
    ELSE {}

\* <directory>/js/plugins/N.js
PluginSource(N) == directory \o <<SL, "js", SL, "plugins", SL>> \o N \o <<DOT, "js">>

AfterPlugins ==
    pc \in {"data", "effekseer", "collect", "tilesets", "sweep", "animations",
            "containers", "done"}

-----------------------------------------------------------------------------
(* Properties of container image resolution *)

\* the paths <directory>/effects/N of the names N the used containers hold
ContainerImages ==
    UNION {{directory \o <<SL, "effects", SL>> \o N :
               N \in {x \in Range(fs[e].strings) : "png" \in Range(Lower(x))}} :
             e \in {u \in used_files : EndsWith(u, <<DOT, "efkefc">>) /\ Readable(u)}}

\* C16: when the run has returned, no image named by a used container is in
\* unused_files or in the returned list.
C16_ContainerImagesNotUnused ==
    pc = "done"
       => \A img \in ContainerImages :
             img \notin unused_files /\ img \notin Range(result[1])

\* the run has returned and container image resolution has marked an image
\* of a used container as used
C16_Witness ==
    /\ pc = "done"
    /\ \E img \in ContainerImages : Exists(img) /\ img \in used_files

-----------------------------------------------------------------------------
(* Properties of the generic sweep *)

\* the step is one pass of the sweep, for the code file filepath'
SweepPass ==
    /\ pc = "sweep"
    /\ pc' = "sweep"
    /\ filepath' \in todo
    /\ todo' = todo \ {filepath'}
    /\ Exists(filepath')

\* the code file F matches the candidate C
Matches(F, C) == Exists(F) /\ search_content_for_file(get_content_from_file(F), F, C)

\* a pass moves every candidate it matches and records where it was found
MatchedMoves ==
    \A C \in unused_files :
       Matches(filepath', C)
          => /\ C \in used_files'
             /\ C \notin unused_files'
             /\ C \in DOMAIN files_used_in'
             /\ filepath' \in files_used_in'[C]

\* C is the sidecar P.info of a locale package P that the pass matches
SidecarOfMatched(C) ==
    \E P \in unused_files :
       /\ EndsWith(P, <<DOT, "pak">>)
       /\ Matches(filepath', P)
       /\ C = P \o <<DOT, "info">>

\* C17 as stated: a pass of the sweep moves every candidate it matches, with
\* provenance, and leaves every candidate that no code file matches.
C17_SweepMovesExactlyMatches ==
    [][SweepPass
          => /\ MatchedMoves
             /\ \A C \in unused_files :
                   (\A G \in code_files : ~Matches(G, C)) => C \in unused_files']_vars

\* C17: a pass of the sweep moves every candidate it matches, with provenance,
\* and leaves every candidate that no code file matches, except the .info
\* sidecar of a locale package the pass matches.
C17_SweepMovesMatchesAndSidecars ==
    [][SweepPass
          => /\ MatchedMoves
             /\ \A C \in unused_files :
                   ((\A G \in code_files : ~Matches(G, C)) /\ ~SidecarOfMatched(C))
                      => C \in unused_files']_vars

\* the sweep is over: a code file matched a candidate, which is used with
\* that file as its provenance, and a candidate nothing matches is unused
C17_Witness ==
    /\ pc = "sweep"
    /\ todo = {}
    /\ \E F \in code_files, C \in used_files :
          /\ Exists(C)
          /\ Matches(F, C)
          /\ C \in DOMAIN files_used_in
          /\ F \in files_used_in[C]
    /\ \E C \in unused_files : \A G \in code_files : ~Matches(G, C)

-----------------------------------------------------------------------------
(* Properties of search_content_for_file *)

\* the base filename of the target: what follows its last '/'
WantedBase ==
    SubSeq(wanted, (CHOOSE i \in 1..Len(wanted) :
                       wanted[i] = "/" /\ \A j \in (i + 1)..Len(wanted) : wanted[j] # "/") + 1,
           Len(wanted))

\* the stem of the target: its base filename without the extension
WantedStem ==
    IF Len(WantedBase) > 2 /\ WantedBase[Len(WantedBase) - 1] = "."
    THEN SubSeq(WantedBase, 1, Len(WantedBase) - 2)
    ELSE WantedBase

\* the content holds the stem in double quotes, '/' and the stem, the stem and
\* a backslash, or the base filename
FourPatterns ==
    \/ Contains(haystack, <<"\"">> \o WantedStem \o <<"\"">>)
    \/ Contains(haystack, <<"/">> \o WantedStem)
    \/ Contains(haystack, WantedStem \o <<"\\">>)
    \/ Contains(haystack, WantedBase)

\* C18: what either matcher returns for a code file as the source is True
\* exactly when the content holds one of the four patterns.
C18_TrueExactlyOnFourPatterns ==
    /\ verdict # <<>> => (verdict[1] <=> FourPatterns)
    /\ gverdict # <<>> => (gverdict[1] <=> FourPatterns)

\* both matchers have answered for a content whose only pattern is '/' and
\* the stem, and the matcher of src/Unused_assets.py has found it
C18_Witness ==
    /\ verdict = <<TRUE>>
    /\ gverdict # <<>>
    /\ Contains(haystack, <<"/">> \o WantedStem)
    /\ ~Contains(haystack, <<"\"">> \o WantedStem \o <<"\"">>)
    /\ ~Contains(haystack, WantedStem \o <<"\\">>)
    /\ ~Contains(haystack, WantedBase)

-----------------------------------------------------------------------------
(* Properties of the animation-id collection *)

RECURSIVE ValuesUnder(_, _)
\* every value stored under the key at any depth of the JSON value x
ValuesUnder(x, key) ==
    CASE x.t = "dict" ->
            UNION {(IF x.v[i][1] = key THEN {x.v[i][2]} ELSE {})
                      \cup ValuesUnder(x.v[i][2], key) : i \in 1..Len(x.v)}
      [] x.t = "list" -> UNION {ValuesUnder(x.v[i], key) : i \in 1..Len(x.v)}
      [] OTHER -> {}

\* the positive integers under 'animationId' in the .json code files
PositiveIds ==
    {v \in UNION {ValuesUnder(fs[f].doc, "animationId") :
                     f \in {g \in code_files : EndsWith(g, <<DOT, "json">>) /\ JsonLoads(g)}} :
        v.t = "int" /\ v.v > 0}

\* the ids the parameters of js/plugins.js name
PluginIds ==
    IF Exists(PluginsFile) THEN get_animation_ids(get_content_from_file(PluginsFile)) ELSE {}

AfterCollect == pc \in {"tilesets", "sweep", "animations", "containers", "done"}

\* C19: after the collection the animations set holds every positive integer
\* stored under 'animationId' in a .json code file, and nothing else but the
\* ids the plugin parameters name.
C19_AllPositiveIds ==
    AfterCollect
       => /\ PositiveIds \subseteq animations
          /\ animations \subseteq PositiveIds \cup PluginIds

\* the collection is over on a project whose .json code files hold a
\* positive animation id
C19_Witness ==
    /\ pc = "tilesets"
    /\ PositiveIds # {}
    /\ animations # {}

\* the entries of the soundTimings lists data/Animations.json records for the id
TimingsOf(id) ==
    IF ~JsonLoads(AnimationsJson) THEN {}
    ELSE LET items == ItemsOf(fs[AnimationsJson].doc)
         IN  UNION {Range(ItemsOf(GetOr(items[i], "soundTimings", JList(<<>>)))) :
                       i \in {j \in 1..Len(items) :
                                /\ IsAnimationItem(items[j])
                                /\ Item(items[j], "id") = id}}

RECURSIVE OwnNames(_)
\* the names a sound-timing entry holds itself: the se.name of an object,
\* the names of the entries of a list
OwnNames(timing) ==
    CASE timing.t = "dict" ->
            IF /\ HasKey(timing, "se")
               /\ Item(timing, "se").t = "dict"
               /\ HasKey(Item(timing, "se"), "name")
               /\ Item(Item(timing, "se"), "name").t = "str"
            THEN {Item(Item(timing, "se"), "name").v}
            ELSE {}
      [] timing.t = "list" ->
            UNION {OwnNames(timing.v[i]) : i \in 1..Len(timing.v)}
      [] OTHER -> {}

\* what the run has recorded under file_references['animations']
AnimationRefs(refs) ==
    IF <<"animations">> \in DOMAIN refs THEN refs[<<"animations">>] ELSE {}

\* the pass for the id has reached the record's effect container (line 540)
Resolved(id, refs) ==
    \E E \in EffectNamesOf(id) : ContainerOf(E) \in AnimationRefs(refs)

\* C20: the pass of animation resolution that resolves a record never aborts
\* the run, whatever the shapes of the entries of its soundTimings list, and
\* records the sound file of every name an entry holds itself: the se.name of
\* an object entry, the names of the objects of a nested list.
C20_TimingsContributeOwnNames ==
    [][\A id \in todo \ todo' :
          (pc = "animations" /\ Resolved(id, file_references'))
             => /\ pc' # "aborted"
                /\ \A timing \in TimingsOf(id) : \A n \in OwnNames(timing) :
                      AudioFile(n) \in AnimationRefs(file_references')]_vars

\* animation resolution has been through a resolved record whose soundTimings
\* list holds a nested list of objects
C20_Witness ==
    /\ pc \in {"animations", "containers", "done", "aborted"}
    /\ \E id \in animations \ todo :
          /\ Resolved(id, file_references)
          /\ \E timing \in TimingsOf(id) :
                timing.t = "list" /\ OwnNames(timing) # {}

\* C21: neither data/Animations.json nor data/Tilesets.json is ever a member
\* of code_files, so the sweep never scans either as a source.
C21_LookupTablesNotCode ==
    /\ AnimationsJson \notin code_files
    /\ TilesetsJson \notin code_files

\* the data code files have been collected on a project that has one of the
\* two database files
C21_Witness ==
    /\ pc = "effekseer"
    /\ Exists(AnimationsJson) \/ Exists(TilesetsJson)
    /\ code_files # {}

\* the directory names the index leaves out
Exclusions == {<<DOT, "git">>, <<DOT, "vs">>, <<"DatabaseCleanUpTool">>}

\* a directory segment of p below the project root is an exclusion entry
ExcludedBelowRoot(p) ==
    /\ Dirname(p) # directory
    /\ PathParts(SubSeq(Dirname(p), Len(directory) + 2, Len(Dirname(p)))) \cap Exclusions # {}

\* C22: a file below a directory named .git, .vs or DatabaseCleanUpTool inside
\* the project is never in unused_files nor in the returned list, and once
\* the index is built every other file of the project except a save file is
\* in used_files or unused_files.
C22_ExclusionBySegment ==
    \A p \in DOMAIN fs :
        /\ ExcludedBelowRoot(p)
              => /\ p \notin unused_files
                 /\ result # <<>> => p \notin Range(result[1])
        /\ (pc = "plugins" /\ ~ExcludedBelowRoot(p) /\ ~EndsWithWord(p, "rmmzsave"))
              => p \in used_files \cup unused_files

\* the index has been built over a project that holds a file below an
\* excluded directory and a file below an ordinary one
C22_Witness ==
    /\ pc = "plugins"
    /\ \E p, q \in DOMAIN fs :
          /\ ExcludedBelowRoot(p)
          /\ ~ExcludedBelowRoot(q) /\ Dirname(q) # directory

\* a path whose last word is the save-file extension
IsSaveFile(p) == Len(p) >= 1 /\ p[Len(p)] = "rmmzsave"

\* C23: no path that ends with 'rmmzsave' is ever in unused_files, nor in
\* the list find_unused_files returns.
C23_NoSaveFileUnused ==
    /\ \A p \in unused_files : ~IsSaveFile(p)
    /\ result # <<>> => \A i \in 1..Len(result[1]) : ~IsSaveFile(result[1][i])

\* the seeding walk has been through a directory below the root that holds
\* a save file, and has found candidates there
C23_Witness ==
    /\ pc = "plugins"
    /\ \E p \in DOMAIN fs :
          /\ IsSaveFile(p)
          /\ Dirname(p) # directory
          /\ ~Skipped(Dirname(p))
          /\ \E q \in unused_files : TRUE

\* every key of the provenance map d is a key of e, with at least its sources
GrowsTo(d, e) ==
    \A k \in DOMAIN d : k \in DOMAIN e /\ d[k] \subseteq e[k]

\* C24: within one run no step of find_unused_files removes a key or a
\* recorded source from files_used_in or from file_references.
C24_ProvenanceAppendOnly ==
    [][pc \notin {"idle", "done", "aborted"}
          => /\ GrowsTo(files_used_in, files_used_in')
             /\ GrowsTo(file_references, file_references')]_vars

\* the run is past the tileset resolution with sources recorded in both maps
C24_Witness ==
    /\ pc = "sweep"
    /\ \E k \in DOMAIN files_used_in : files_used_in[k] # {}
    /\ \E k \in DOMAIN file_references : file_references[k] # {}

\* the sources that name no file: '.' and 'root'
Symbolic == {<<DOT>>, <<"root">>}

\* the images of the tilesets the database names
TilesetImages ==
    IF ~JsonLoads(TilesetsJson) THEN {}
    ELSE LET ts == ItemsOf(fs[TilesetsJson].doc)
         IN  UNION {{[name |-> n, png |-> TilesetPng(n.v)] :
                       n \in {m \in Range(ItemsOf(GetOr(ts[i], "tilesetNames", JList(<<>>)))) :
                                m.t = "str" /\ m.v # <<>>}} :
                      i \in {j \in 1..Len(ts) : ts[j].t = "dict"}}

\* the code file s names the candidate k in its content
NamedBy(s, k) ==
    /\ s \in code_files
    /\ Exists(s)
    /\ search_content_for_file(get_content_from_file(s), s, k)

\* C25: in the provenance map of a run that has returned every key is the
\* path of a file marked used; a file recorded as source of a tileset image
\* is a map record that resolves to the image or a code file that names it;
\* a used effect container and a used image of a container are keys of the
\* map under their full paths.
C25_ProvenanceJustified ==
    pc = "done"
       => /\ DOMAIN files_used_in \subseteq used_files
          /\ \A ti \in TilesetImages :
                ti.png \in DOMAIN files_used_in
                   => \A s \in files_used_in[ti.png] \ Symbolic :
                         \/ IsMapRecord(s) /\ ti.name \in TilesetNamesOf(s)
                         \/ NamedBy(s, ti.png)
          /\ \A id \in animations : \A E \in EffectNamesOf(id) :
                ContainerOf(E) \in used_files => ContainerOf(E) \in DOMAIN files_used_in
          /\ \A img \in ContainerImages :
                img \in used_files => img \in DOMAIN files_used_in

\* the run has returned a provenance map that records a file as a source
C25_Witness ==
    /\ pc = "done"
    /\ \E k \in DOMAIN files_used_in : files_used_in[k] \ Symbolic # {}

-----------------------------------------------------------------------------
(* Properties of the window and its threads *)

\* a run that has returned has reported p as unused
ReportedUnused(p) == \E i \in 1..Len(results) : p \in Range(results[i])

\* C26: whatever the order of the button presses and the steps of the
\* threads, a file that delete_unused_files removes is in the unused list a
\* run had returned before the removal.
C26_DeletesOnlyReported ==
    [][\A p \in DOMAIN fs \ DOMAIN fs' : ReportedUnused(p)]_vars

\* the deleting thread has removed a file after a run had returned its list
C26_Witness ==
    /\ results # <<>>
    /\ \E p \in deleter.seen : ~Exists(p)

\* C27: run_finder is never invoked while the worker of an earlier run has
\* not finished, and a worker only changes the global sets that were bound
\* for its own run.
C27_OneRunAtATime ==
    [][/\ runs' # runs => \A r \in 1..MaxRuns : ~Running(r)
       /\ \A r \in 1..MaxRuns :
             (<<wpc[r], wtodo[r]>> # <<wpc'[r], wtodo'[r]>> /\ Running(r))
                => \/ r = runs
                   \/ UNCHANGED <<used_files, unused_files, code_files, animations>>]_vars

\* run_finder was invoked again and the worker of the first run goes on
C27_Witness ==
    /\ runs = 2
    /\ Running(1)
    /\ Running(2)

-----------------------------------------------------------------------------
(* Properties of the staging copy *)

\* C28: the directory the initial rmtree of copy_game_to_staging removes is
\* neither the repository path nor a directory above it.
C28_SourceNeverRemoved ==
    rmtree # NoPath
       => /\ rmtree # repo_path
          /\ ~StartsWith(repo_path, rmtree \o <<SL>>)

\* start_process has accepted its inputs and the rmtree has removed a directory
C28_Witness ==
    /\ spc \in {"walk", "copy", "done"}
    /\ rmtree # NoPath

\* C29: whenever find_unused_files invokes the progress callback, the code
\* count it passes is at least 1 and the evaluated count is at most the code
\* count.
C29_ProgressWithinRange ==
    \A a \in called : a[2] >= 1 /\ a[1] <= a[2]

\* a worker has invoked the progress callback during its sweep
C29_Witness ==
    \E a \in called : a[1] >= 1

\* C30: from the end of plugin resolution to the end of a run, every member
\* of code_files is a member of used_files and not a member of unused_files.
C30_CodeFilesUsed ==
    (\E r \in 1..MaxRuns : wpc[r] = "sweep")
       => /\ code_files \subseteq used_files
          /\ code_files \cap unused_files = {}

\* a worker is in its sweep and has scanned a code file that is on disk
C30_Witness ==
    \E r \in 1..MaxRuns :
       /\ wpc[r] = "sweep"
       /\ wcount[r] >= 1
       /\ \E f \in code_files : f \in DOMAIN fs

====
